---- MODULE Spec2Model ----
(***************************************************************************)
(* Model of the multi-source reconciliation engine of cv-manager           *)
(* (src/merge_data.py): transform_to_merged_format, get_comparison_string, *)
(* merge_sources and the driver main().                                    *)
(*                                                                         *)
(* Python values are tagged records [t, v]:                                *)
(*   none, bool, int, float (tenths), str (sequence of characters),        *)
(*   list (sequence of values), dict (sequence of <<key, value>> pairs in  *)
(*   insertion order, keys unique).                                        *)
(* A Field is an ordinary dict with the keys value, source, timestamp,     *)
(* confidence, conflicts: the code tells Fields from mappings only by the  *)
(* presence of the key 'value', and so does the model.                     *)
(***************************************************************************)
EXTENDS Integers, Sequences, FiniteSets, TLC

VARIABLES
    pc,           \* position of main(): load_primary, merge, done, failed, crashed;
                  \* then of the validator: validated, validator_crashed
    config,       \* the loaded configuration (strategy, threshold, data_sources)
    merged_data,  \* the reconciled tree main() accumulates
    baseline,     \* the tree right after the baseline transformation (history)
    loads,        \* the documents json.load returned so far, with their sources;
                  \* the last one is new_data (primary_data for the first)
    idx,          \* index into sources of the next source to merge
    clock,        \* datetime.now(): one tick per document handled
    output,       \* content of the output file, NoFile until written
    issues        \* DataValidator.issues

vars == <<pc, config, merged_data, baseline, loads, idx, clock, output, issues>>

-----------------------------------------------------------------------------
\* LET x == e IN F(x), with e evaluated once, before F
With(e, F(_)) == CHOOSE r \in {F(x) : x \in {e}} : TRUE

-----------------------------------------------------------------------------
(* Python values *)

PyNone == [t |-> "none", v |-> <<>>]
PyBool(b) == [t |-> "bool", v |-> IF b THEN 1 ELSE 0]
PyInt(n) == [t |-> "int", v |-> n]
PyFloat(tenths) == [t |-> "float", v |-> tenths]
PyStr(s) == [t |-> "str", v |-> s]
PyList(l) == [t |-> "list", v |-> l]
PyDict(items) == [t |-> "dict", v |-> items]

IsDict(x) == x.t = "dict"
IsList(x) == x.t = "list"
IsNumber(x) == x.t \in {"bool", "int", "float"}

\* the numeric value of a bool, int or float, in tenths
NumValue(x) == IF x.t = "float" THEN x.v ELSE 10 * x.v

HasKey(d, k) == \E i \in 1..Len(d.v) : d.v[i][1] = k
IndexOfKey(d, k) == CHOOSE i \in 1..Len(d.v) : d.v[i][1] = k
GetKey(d, k) == d.v[IndexOfKey(d, k)][2]
\* d[k] = val : an existing key keeps its position, a new key goes last
SetKey(d, k, val) ==
    IF HasKey(d, k)
    THEN [d EXCEPT !.v[IndexOfKey(d, k)] = <<k, val>>]
    ELSE [d EXCEPT !.v = Append(@, <<k, val>>)]
\* del d[k]
DelKey(d, k) ==
    [d EXCEPT !.v = SubSeq(@, 1, IndexOfKey(d, k) - 1)
                    \o SubSeq(@, IndexOfKey(d, k) + 1, Len(@))]
Keys(d) == {d.v[i][1] : i \in 1..Len(d.v)}

\* bool(x) for a dict or a list: empty containers are falsy
Truthy(x) ==
    CASE x.t \in {"dict", "list", "str"} -> Len(x.v) > 0
      [] x.t = "none" -> FALSE
      [] OTHER -> x.v # 0

\* Python ==  on JSON values: numbers compare by value across bool/int/float,
\* lists element-wise, dicts by key set and values (order-insensitive)
RECURSIVE PyEq(_, _)
PyEq(a, b) ==
    IF IsNumber(a) /\ IsNumber(b) THEN NumValue(a) = NumValue(b)
    ELSE IF a.t # b.t THEN FALSE
    ELSE CASE a.t = "none" -> TRUE
           [] a.t = "str" -> a.v = b.v
           [] a.t = "list" ->
                /\ Len(a.v) = Len(b.v)
                /\ \A i \in 1..Len(a.v) : PyEq(a.v[i], b.v[i])
           [] a.t = "dict" ->
                /\ Keys(a) = Keys(b)
                /\ \A k \in Keys(a) : PyEq(GetKey(a, k), GetKey(b, k))

-----------------------------------------------------------------------------
(* str() and repr() of Python values, character by character *)

Digits == <<"0", "1", "2", "3", "4", "5", "6", "7", "8", "9">>

RECURSIVE IntStr(_)
IntStr(n) ==
    IF n < 10 THEN <<Digits[n + 1]>>
    ELSE IntStr(n \div 10) \o <<Digits[(n % 10) + 1]>>

\* repr of a float held in tenths: 5 -> 0.5, 10 -> 1.0
FloatStr(tenths) == IntStr(tenths \div 10) \o <<".">> \o IntStr(tenths % 10)

\* the characters of the dictionary keys the documents and Fields use
KeyChars ==
    [ value |-> <<"v", "a", "l", "u", "e">>,
      source |-> <<"s", "o", "u", "r", "c", "e">>,
      timestamp |-> <<"t", "i", "m", "e", "s", "t", "a", "m", "p">>,
      confidence |-> <<"c", "o", "n", "f", "i", "d", "e", "n", "c", "e">>,
      conflicts |-> <<"c", "o", "n", "f", "l", "i", "c", "t", "s">>,
      work_experience |-> <<"w", "o", "r", "k", "_", "e", "x", "p", "e", "r",
                            "i", "e", "n", "c", "e">>,
      company |-> <<"c", "o", "m", "p", "a", "n", "y">>,
      position |-> <<"p", "o", "s", "i", "t", "i", "o", "n">>,
      start |-> <<"s", "t", "a", "r", "t">>,
      email |-> <<"e", "m", "a", "i", "l">>,
      name |-> <<"n", "a", "m", "e">>,
      skills |-> <<"s", "k", "i", "l", "l", "s">>,
      education |-> <<"e", "d", "u", "c", "a", "t", "i", "o", "n">>,
      institution |-> <<"i", "n", "s", "t", "i", "t", "u", "t", "i", "o", "n">>,
      degree |-> <<"d", "e", "g", "r", "e", "e">>,
      x |-> <<"x">> ]

RECURSIVE PyRepr(_), ReprList(_, _), ReprItems(_, _)
PyRepr(x) ==
    CASE x.t = "none" -> <<"N", "o", "n", "e">>
      [] x.t = "bool" -> IF x.v = 1 THEN <<"T", "r", "u", "e">>
                         ELSE <<"F", "a", "l", "s", "e">>
      [] x.t = "int" -> IntStr(x.v)
      [] x.t = "float" -> FloatStr(x.v)
      [] x.t = "str" -> <<"'">> \o x.v \o <<"'">>
      [] x.t = "list" -> <<"[">> \o ReprList(x.v, 1) \o <<"]">>
      [] x.t = "dict" -> <<"{">> \o ReprItems(x.v, 1) \o <<"}">>
ReprList(l, i) ==
    IF i > Len(l) THEN <<>>
    ELSE (IF i > 1 THEN <<",", " ">> ELSE <<>>) \o PyRepr(l[i]) \o ReprList(l, i + 1)
ReprItems(items, i) ==
    IF i > Len(items) THEN <<>>
    ELSE (IF i > 1 THEN <<",", " ">> ELSE <<>>)
         \o <<"'">> \o KeyChars[items[i][1]] \o <<"'", ":", " ">>
         \o PyRepr(items[i][2]) \o ReprItems(items, i + 1)

\* str(x): a str is itself, everything else prints as its repr
PyToStr(x) == IF x.t = "str" THEN x.v ELSE PyRepr(x)

\* str.lower() on the characters the model uses
UpperLetters ==
    <<"A", "B", "C", "D", "E", "F", "G", "H", "I", "J", "K", "L", "M",
      "N", "O", "P", "Q", "R", "S", "T", "U", "V", "W", "X", "Y", "Z">>
LowerLetters ==
    <<"a", "b", "c", "d", "e", "f", "g", "h", "i", "j", "k", "l", "m",
      "n", "o", "p", "q", "r", "s", "t", "u", "v", "w", "x", "y", "z">>
LowerChar(c) ==
    IF \E i \in 1..26 : UpperLetters[i] = c
    THEN LowerLetters[CHOOSE i \in 1..26 : UpperLetters[i] = c]
    ELSE c
Lower(s) == [i \in 1..Len(s) |-> LowerChar(s[i])] \o <<>>

\* " ".join(parts)
RECURSIVE JoinSpace(_, _)
JoinSpace(parts, i) ==
    IF i > Len(parts) THEN <<>>
    ELSE (IF i > 1 THEN <<" ">> ELSE <<>>) \o parts[i] \o JoinSpace(parts, i + 1)

-----------------------------------------------------------------------------
(* thefuzz.fuzz.ratio: int(round(100 * 2 * LCS / (len(s1) + len(s2)))), the  *)
(* normalised indel similarity; Python's round() rounds halves to even.     *)

Max(a, b) == IF a > b THEN a ELSE b

\* The longest-common-subsequence table of a and b, one row per character of
\* a.  row[j + 1] is the LCS of a prefix of a and the first j characters of b.
\* A row follows from the previous one and the last place at or before j
\* where b holds the character c of the row:
\*     row[j] = max(prev[j], prev[last - 1] + 1).
\* The loops split their range in halves, which keeps the evaluation shallow
\* on long strings.

\* LastOcc(b, c)[j + 1]: the last k <= j with b[k] = c, 0 when there is none
RECURSIVE LastOccFrom(_, _, _, _, _)
LastOccFrom(b, c, acc, lo, hi) ==
    IF lo > hi THEN acc
    ELSE IF lo = hi THEN Append(acc, IF b[lo] = c THEN lo ELSE acc[lo])
    ELSE With(LastOccFrom(b, c, acc, lo, (lo + hi) \div 2),
              LAMBDA half : LastOccFrom(b, c, half, ((lo + hi) \div 2) + 1, hi))
LastOcc(b, c) == LastOccFrom(b, c, <<0>>, 1, Len(b))

\* (the concatenation makes the row a sequence of numbers, computed once)
LcsRow(prev, last) ==
    [i \in 1..Len(prev) |->
        IF last[i] = 0 THEN prev[i] ELSE Max(prev[i], prev[last[i]] + 1)] \o <<>>

RECURSIVE LcsRows(_, _, _, _, _)
LcsRows(a, lasts, prev, lo, hi) ==
    IF lo > hi THEN prev
    ELSE IF lo = hi THEN LcsRow(prev, lasts[a[lo]])
    ELSE With(LcsRows(a, lasts, prev, lo, (lo + hi) \div 2),
              LAMBDA half : LcsRows(a, lasts, half, ((lo + hi) \div 2) + 1, hi))

Lcs(a, b) ==
    With([c \in {a[i] : i \in 1..Len(a)} |-> LastOcc(b, c)],
         LAMBDA lasts :
            LcsRows(a, lasts, [j \in 1..(Len(b) + 1) |-> 0], 1, Len(a))[Len(b) + 1])

\* round(num / den) with halves to even, num >= 0, den > 0
RoundHalfEven(num, den) ==
    LET q == num \div den
        r == num % den
    IN  IF 2 * r < den THEN q
        ELSE IF 2 * r > den THEN q + 1
        ELSE IF q % 2 = 0 THEN q ELSE q + 1

\* (the longer string gives the rows of the table, the shorter one their width)
FuzzRatio(s1, s2) ==
    With(IF Len(s1) <= Len(s2) THEN <<s2, s1>> ELSE <<s1, s2>>, LAMBDA s :
        IF Len(s[1]) + Len(s[2]) = 0 THEN 100
        ELSE RoundHalfEven(200 * Lcs(s[1], s[2]), Len(s[1]) + Len(s[2])))

-----------------------------------------------------------------------------
(* transform_to_merged_format and get_comparison_string *)

\* datetime.now(timezone.utc).isoformat() at tick n of the clock
Isoformat(n) ==
    <<"2", "0", "2", "5", "-", "0", "1", "-", "0", "1", "T",
      "0", "0", ":", "0", "0", ":", "0">> \o <<Digits[n + 1]>>
    \o <<".", "0", "0", "0", "0", "0", "1", "+", "0", "0", ":", "0", "0">>

\* lines 20-26, mutated: the Field does not name its source
FieldWithoutSource(value, source_name, timestamp, confidence, conflicts) ==
    PyDict(<< <<"value", value>>,
              <<"source", PyStr(<<>>)>>,
              <<"timestamp", PyStr(timestamp)>>,
              <<"confidence", PyFloat(confidence)>>,
              <<"conflicts", PyList(conflicts)>> >>)

\* the dict literal of lines 20-26
Field(value, source_name, timestamp, confidence, conflicts) ==
    PyDict(<< <<"value", value>>,
              <<"source", PyStr(<<source_name>>)>>,
              <<"timestamp", PyStr(timestamp)>>,
              <<"confidence", PyFloat(confidence)>>,
              <<"conflicts", PyList(conflicts)>> >>)

RECURSIVE TransformToMergedFormat(_, _, _, _)
TransformToMergedFormat(data, source_name, confidence, now) ==
    IF IsDict(data)
    THEN PyDict([i \in 1..Len(data.v) |->
                    <<data.v[i][1],
                      TransformToMergedFormat(data.v[i][2], source_name, confidence, now)>>]
                \o <<>>)
    ELSE IF IsList(data)
    THEN PyList([i \in 1..Len(data.v) |->
                    TransformToMergedFormat(data.v[i], source_name, confidence, now)]
                \o <<>>)
    ELSE Field(data, source_name, Isoformat(now), confidence, <<>>)

\* key_fields of get_comparison_string
KeyFields ==
    [ work_experience |-> <<"company", "position">>,
      education |-> <<"institution", "degree">> ]

\* one part of the comparison string: str(item.get(field, '')) with a dict
\* replaced by its .get('value')
ComparisonPart(item, field) ==
    LET val == IF HasKey(item, field) THEN GetKey(item, field) ELSE PyStr(<<>>)
        part == IF IsDict(val)
                THEN (IF HasKey(val, "value") THEN GetKey(val, "value") ELSE PyNone)
                ELSE val
    IN  PyToStr(part)

GetComparisonString(item, item_type) ==
    IF ~IsDict(item) THEN PyToStr(item)
    ELSE IF item_type \notin DOMAIN KeyFields THEN PyToStr(item)
    ELSE Lower(JoinSpace([i \in 1..Len(KeyFields[item_type]) |->
                             ComparisonPart(item, KeyFields[item_type][i])], 1))

-----------------------------------------------------------------------------
(* merge_sources.  Python mutates merged_data in place and may raise; the   *)
(* operators return [data |-> the tree as mutated so far, ok |-> no raise]. *)

Done(data) == [data |-> data, ok |-> TRUE]
Raise(data) == [data |-> data, ok |-> FALSE]

\* line 90, mutated: the incoming value is never found equal
ValuesEqualNever(merged_node, new_value) == FALSE

\* line 90: merged_node['value'] == new_value
ValuesEqual(merged_node, new_value) == PyEq(GetKey(merged_node, "value"), new_value)

\* line 94, mutated: every strategy runs the confidence comparison
IsHighestConfidenceWinsAlways(strategy) == TRUE

\* line 94: strategy == 'highest_confidence_wins'
IsHighestConfidenceWins(strategy) == strategy = "highest_confidence_wins"

\* line 96, mutated: a tie takes over as well
OutranksOrTies(new_confidence, current_confidence) ==
    new_confidence >= NumValue(current_confidence)

\* line 96: new_confidence > current_confidence
Outranks(new_confidence, current_confidence) ==
    new_confidence > NumValue(current_confidence)

\* lines 97-98, mutated: the copy keeps its conflicts
OldWinnerNested(merged_node) == merged_node

\* lines 97-98: old_winner = copy.deepcopy(merged_node); del old_winner['conflicts']
OldWinner(merged_node) == DelKey(merged_node, "conflicts")

\* lines 101-106, mutated: the source of the new winner is not recorded
UpdateWinnerKeepsSource(merged_node, new_value, source_name, new_confidence, now) ==
    SetKey(SetKey(SetKey(merged_node,
        "value", new_value),
        "timestamp", PyStr(Isoformat(now))),
        "confidence", PyFloat(new_confidence))

\* lines 101-106: merged_node.update({...})
UpdateWinner(merged_node, new_value, source_name, new_confidence, now) ==
    SetKey(SetKey(SetKey(SetKey(merged_node,
        "value", new_value),
        "source", PyStr(<<source_name>>)),
        "timestamp", PyStr(Isoformat(now))),
        "confidence", PyFloat(new_confidence))

\* mutated: the entry replaces the conflicts recorded so far
AppendConflictReplacing(merged_node, entry) ==
    SetKey(merged_node, "conflicts", PyList(<<entry>>))

\* merged_node['conflicts'].append(entry)
AppendConflict(merged_node, entry) ==
    SetKey(merged_node, "conflicts",
           PyList(Append(GetKey(merged_node, "conflicts").v, entry)))

\* merged_node['conflicts'] is there and is a list
CanAppendConflict(merged_node) ==
    HasKey(merged_node, "conflicts") /\ IsList(GetKey(merged_node, "conflicts"))

\* lines 89-115: the branch taken when merged_node is a dict holding 'value'
ResolveConflict(merged_node, new_value, source_name, new_confidence, strategy, now) ==
    IF ValuesEqual(merged_node, new_value)
    THEN Done(merged_node)                                   \* line 91
    ELSE IF IsHighestConfidenceWins(strategy)
    THEN LET current_confidence ==
                 IF HasKey(merged_node, "confidence")
                 THEN GetKey(merged_node, "confidence") ELSE PyInt(0)
         IN  IF ~IsNumber(current_confidence)
             THEN Raise(merged_node)                         \* TypeError, line 96
             ELSE IF Outranks(new_confidence, current_confidence)
             THEN IF ~CanAppendConflict(merged_node)
                  THEN Raise(merged_node)                    \* KeyError, line 98
                  ELSE Done(UpdateWinner(
                           AppendConflict(merged_node, OldWinner(merged_node)),
                           new_value, source_name, new_confidence, now))
             ELSE IF ~CanAppendConflict(merged_node)
                  THEN Raise(merged_node)                    \* KeyError, line 108
                  ELSE Done(AppendConflict(merged_node,
                           PyDict(<< <<"value", new_value>>,
                                     <<"source", PyStr(<<source_name>>)>>,
                                     <<"timestamp", PyStr(Isoformat(now))>>,
                                     <<"confidence", PyFloat(new_confidence)>> >>)))
    ELSE IF ~CanAppendConflict(merged_node)
         THEN Raise(merged_node)                             \* KeyError, line 115
         ELSE Done(AppendConflict(merged_node,
                 TransformToMergedFormat(new_value, source_name, new_confidence, now)))

\* line 73, mutated: score >= best_match_score, the last one among equals
RECURSIVE BestMatchLast(_, _, _, _, _, _)
BestMatchLast(new_item_str, merged_node, key, i, best_match_score, best_match_node) ==
    IF i > Len(merged_node) THEN [score |-> best_match_score, node |-> best_match_node]
    ELSE LET score == FuzzRatio(new_item_str, GetComparisonString(merged_node[i], key))
         IN  IF score >= best_match_score
             THEN BestMatchLast(new_item_str, merged_node, key, i + 1, score, i)
             ELSE BestMatchLast(new_item_str, merged_node, key, i + 1,
                                best_match_score, best_match_node)

\* lines 66-75: index of the existing item with the highest score, the first
\* one among equals; 0 stands for None (no item scored above 0)
RECURSIVE BestMatch(_, _, _, _, _, _)
BestMatch(new_item_str, merged_node, key, i, best_match_score, best_match_node) ==
    IF i > Len(merged_node) THEN [score |-> best_match_score, node |-> best_match_node]
    ELSE LET score == FuzzRatio(new_item_str, GetComparisonString(merged_node[i], key))
         IN  IF score > best_match_score
             THEN BestMatch(new_item_str, merged_node, key, i + 1, score, i)
             ELSE BestMatch(new_item_str, merged_node, key, i + 1,
                            best_match_score, best_match_node)

\* config['merging_rules'] holds no key 'strategy'
Absent == "<absent>"

RECURSIVE MergeSources(_, _, _, _, _)
RECURSIVE MergeList(_, _, _, _, _, _, _, _)
RECURSIVE MergeItems(_, _, _, _, _, _)

\* the loop body of lines 54-115 for one key of new_data
MergeKey(merged_data_, key, new_value, source_name, cfg, now) ==
    LET new_confidence == cfg.data_sources[source_name].confidence
    IN
    IF ~IsDict(merged_data_)
    THEN Raise(merged_data_)           \* a list cannot take merged_data_[key], line 56
    ELSE IF ~HasKey(merged_data_, key)
    THEN Done(SetKey(merged_data_, key,
                TransformToMergedFormat(new_value, source_name, new_confidence, now)))
    ELSE LET merged_node == GetKey(merged_data_, key)
         IN  IF IsDict(new_value) /\ IsDict(merged_node)
             THEN LET r == MergeSources(merged_node, new_value, source_name, cfg, now)
                  IN  [data |-> SetKey(merged_data_, key, r.data), ok |-> r.ok]
             ELSE IF IsList(new_value) /\ IsList(merged_node)
             THEN LET r == MergeList(merged_node.v, new_value.v, 1, <<>>, key,
                                     source_name, cfg, now)
                  IN  [data |-> SetKey(merged_data_, key, PyList(r.data)), ok |-> r.ok]
             ELSE IF IsDict(merged_node) /\ HasKey(merged_node, "value")
             THEN LET r == ResolveConflict(merged_node, new_value, source_name,
                                           new_confidence, cfg.strategy, now)
                  IN  [data |-> SetKey(merged_data_, key, r.data), ok |-> r.ok]
             ELSE Done(merged_data_)

\* lines 86-87: every unmatched item is transformed and appended
AppendUnmatched(merged_node, unmatched_new_items, source_name, cfg, now) ==
    merged_node \o
    [i \in 1..Len(unmatched_new_items) |->
        TransformToMergedFormat(unmatched_new_items[i], source_name,
            cfg.data_sources[source_name].confidence, now)]

\* lines 83-87, mutated: an unmatched item is appended at once, before the
\* next incoming item is scored
MergeListAppendingAtOnce(merged_node, new_value, n, unmatched_new_items, key, source_name, cfg, now) ==
    IF n > Len(new_value)
    THEN Done(merged_node)
    ELSE LET new_item == new_value[n]
             best == BestMatch(GetComparisonString(new_item, key), merged_node, key, 1, 0, 0)
         IN  IF best.node # 0 /\ Truthy(merged_node[best.node])
                /\ best.score >= cfg.threshold
             THEN IF IsDict(new_item)
                  THEN LET r == MergeSources(merged_node[best.node], new_item,
                                             source_name, cfg, now)
                       IN  IF r.ok
                           THEN MergeList([merged_node EXCEPT ![best.node] = r.data],
                                          new_value, n + 1, unmatched_new_items, key,
                                          source_name, cfg, now)
                           ELSE Raise([merged_node EXCEPT ![best.node] = r.data])
                  ELSE MergeList(merged_node, new_value, n + 1, unmatched_new_items,
                                 key, source_name, cfg, now)
             ELSE MergeList(AppendUnmatched(merged_node, <<new_item>>, source_name, cfg, now),
                            new_value, n + 1, unmatched_new_items, key,
                            source_name, cfg, now)

\* lines 79-83, mutated: a matched item that is no mapping is kept for
\* appending
MergeListAppendingMatched(merged_node, new_value, n, unmatched_new_items, key, source_name, cfg, now) ==
    IF n > Len(new_value)
    THEN Done(AppendUnmatched(merged_node, unmatched_new_items, source_name, cfg, now))
    ELSE LET new_item == new_value[n]
             best == BestMatch(GetComparisonString(new_item, key), merged_node, key, 1, 0, 0)
         IN  IF best.node # 0 /\ Truthy(merged_node[best.node])
                /\ best.score >= cfg.threshold /\ IsDict(new_item)
             THEN LET r == MergeSources(merged_node[best.node], new_item,
                                        source_name, cfg, now)
                  IN  IF r.ok
                      THEN MergeList([merged_node EXCEPT ![best.node] = r.data],
                                     new_value, n + 1, unmatched_new_items, key,
                                     source_name, cfg, now)
                      ELSE Raise([merged_node EXCEPT ![best.node] = r.data])
             ELSE MergeList(merged_node, new_value, n + 1,
                            Append(unmatched_new_items, new_item), key,
                            source_name, cfg, now)

\* line 77, mutated: matching is exclusive in the crudest way, only the
\* first incoming item may be merged into an existing one
MergeListFirstOnly(merged_node, new_value, n, unmatched_new_items, key, source_name, cfg, now) ==
    IF n > Len(new_value)
    THEN Done(AppendUnmatched(merged_node, unmatched_new_items, source_name, cfg, now))
    ELSE LET new_item == new_value[n]
             best == BestMatch(GetComparisonString(new_item, key), merged_node, key, 1, 0, 0)
         IN  IF best.node # 0 /\ Truthy(merged_node[best.node])
                /\ best.score >= cfg.threshold /\ n = 1
             THEN IF IsDict(new_item)
                  THEN LET r == MergeSources(merged_node[best.node], new_item,
                                             source_name, cfg, now)
                       IN  IF r.ok
                           THEN MergeList([merged_node EXCEPT ![best.node] = r.data],
                                          new_value, n + 1, unmatched_new_items, key,
                                          source_name, cfg, now)
                           ELSE Raise([merged_node EXCEPT ![best.node] = r.data])
                  ELSE MergeList(merged_node, new_value, n + 1, unmatched_new_items,
                                 key, source_name, cfg, now)
             ELSE MergeList(merged_node, new_value, n + 1,
                            Append(unmatched_new_items, new_item), key,
                            source_name, cfg, now)

\* lines 64-87: merged_node and new_value are the two lists as sequences, n the
\* next incoming item, unmatched_new_items the items kept for appending
MergeList(merged_node, new_value, n, unmatched_new_items, key, source_name, cfg, now) ==
    IF n > Len(new_value)
    THEN Done(AppendUnmatched(merged_node, unmatched_new_items, source_name, cfg, now))
    ELSE LET new_item == new_value[n]
             best == BestMatch(GetComparisonString(new_item, key), merged_node, key, 1, 0, 0)
         IN  IF best.node # 0 /\ Truthy(merged_node[best.node])
                /\ best.score >= cfg.threshold
             THEN IF IsDict(new_item)
                  THEN LET r == MergeSources(merged_node[best.node], new_item,
                                             source_name, cfg, now)
                       IN  IF r.ok
                           THEN MergeList([merged_node EXCEPT ![best.node] = r.data],
                                          new_value, n + 1, unmatched_new_items, key,
                                          source_name, cfg, now)
                           ELSE Raise([merged_node EXCEPT ![best.node] = r.data])
                  ELSE MergeList(merged_node, new_value, n + 1, unmatched_new_items,
                                 key, source_name, cfg, now)
             ELSE MergeList(merged_node, new_value, n + 1,
                            Append(unmatched_new_items, new_item), key,
                            source_name, cfg, now)

\* line 54, mutated: the keys new_data does not hold are dropped at the end
MergeItemsPruning(merged_data_, items, i, source_name, cfg, now) ==
    IF i > Len(items)
    THEN Done(IF IsDict(merged_data_)
              THEN PyDict(SelectSeq(merged_data_.v,
                       LAMBDA kv : \E j \in 1..Len(items) : items[j][1] = kv[1]))
              ELSE merged_data_)
    ELSE LET r == MergeKey(merged_data_, items[i][1], items[i][2], source_name, cfg, now)
         IN  IF r.ok THEN MergeItems(r.data, items, i + 1, source_name, cfg, now)
             ELSE r

\* the for loop of line 54 from the i-th item of new_data on
MergeItems(merged_data_, items, i, source_name, cfg, now) ==
    IF i > Len(items) THEN Done(merged_data_)
    ELSE LET r == MergeKey(merged_data_, items[i][1], items[i][2], source_name, cfg, now)
         IN  IF r.ok THEN MergeItems(r.data, items, i + 1, source_name, cfg, now)
             ELSE r

MergeSources(merged_data_, new_data_, source_name, cfg, now) ==
    IF cfg.strategy = Absent THEN Raise(merged_data_)   \* KeyError, line 50
    ELSE IF ~IsDict(new_data_) THEN Raise(merged_data_)    \* no .items(), line 54
    ELSE MergeItems(merged_data_, new_data_.v, 1, source_name, cfg, now)

-----------------------------------------------------------------------------
(* validate_data.py: DataValidator *)

\* json.dump followed by json.load: mappings keep their keys in order, lists
\* their items, scalars their type and value
RECURSIVE JsonRoundTrip(_)
JsonRoundTrip(x) ==
    IF IsDict(x)
    THEN PyDict([i \in 1..Len(x.v) |-> <<x.v[i][1], JsonRoundTrip(x.v[i][2])>>] \o <<>>)
    ELSE IF IsList(x)
    THEN PyList([i \in 1..Len(x.v) |-> JsonRoundTrip(x.v[i])] \o <<>>)
    ELSE [t |-> x.t, v |-> x.v]

\* the outcome of a part of the validation: the issues appended, and whether
\* it returned or raised
Issues(found) == [issues |-> found, ok |-> TRUE]
Raised(found) == [issues |-> found, ok |-> FALSE]

\* x in [None, '']
IsNoneOrEmpty(x) == x.t = "none" \/ (x.t = "str" /\ x.v = <<>>)

\* lines 56-61: the issue of a Field whose value is None or ''
MissingValue(field, path) ==
    IF IsNoneOrEmpty(GetKey(field, "value"))
    THEN << [type |-> "Missing Value", path |-> path, source |-> GetKey(field, "source"),
             count |-> 0] >>
    ELSE <<>>

\* lines 65-69: the issue of a Field with conflicts, len(field['conflicts'])
\* in its details
ConflictFound(field, path) ==
    << [type |-> "Conflict Found", path |-> path, source |-> PyNone,
        count |-> Len(GetKey(field, "conflicts").v)] >>

\* lines 53-69: _validate_field
ValidateField(field, path) ==
    LET conflicts == IF HasKey(field, "conflicts") THEN GetKey(field, "conflicts") ELSE PyNone
    IN  IF ~Truthy(conflicts) THEN Issues(MissingValue(field, path))
        ELSE IF IsNumber(conflicts)
        THEN Raised(MissingValue(field, path))             \* len() of a number, line 64
        ELSE IF Len(conflicts.v) > 0
        THEN Issues(MissingValue(field, path) \o ConflictFound(field, path))
        ELSE Issues(MissingValue(field, path))

\* f"{path}[{i}]" with the index counted from 0
IndexPath(path, i) == path \o <<"[">> \o IntStr(i - 1) \o <<"]">>

\* f"{path}.{key}" if path else key
KeyPath(path, key) == IF path = <<>> THEN KeyChars[key] ELSE path \o <<".">> \o KeyChars[key]

\* path.endswith(suffix)
EndsWith(path, suffix) ==
    /\ Len(suffix) <= Len(path)
    /\ SubSeq(path, Len(path) - Len(suffix) + 1, Len(path)) = suffix

\* lines 45-48: the required fields of the items of the two lists
RequiredFields ==
    [ work_experience |-> <<"company", "position">>,
      education |-> <<"institution", "degree">> ]

\* lines 76-82 for one item and the required fields from the f-th on
RECURSIVE ValidateRequired(_, _, _, _, _)
ValidateRequired(item, item_path, required_fields, f, found) ==
    IF f > Len(required_fields) THEN Issues(found)
    ELSE LET field_name == required_fields[f]
             issue == [type |-> "Missing Required Field", path |-> item_path,
                       source |-> PyStr(KeyChars[field_name]), count |-> 0]
         IN  IF ~HasKey(item, field_name)
             THEN ValidateRequired(item, item_path, required_fields, f + 1, Append(found, issue))
             ELSE IF ~IsDict(GetKey(item, field_name))
             THEN Raised(found)                            \* no .get, line 77
             ELSE IF ~HasKey(GetKey(item, field_name), "value")
                     \/ IsNoneOrEmpty(GetKey(GetKey(item, field_name), "value"))
             THEN ValidateRequired(item, item_path, required_fields, f + 1, Append(found, issue))
             ELSE ValidateRequired(item, item_path, required_fields, f + 1, found)

\* lines 71-82: _validate_list_items from the i-th item on
RECURSIVE ValidateListItems(_, _, _, _, _)
ValidateListItems(item_list, path, required_fields, i, found) ==
    IF i > Len(item_list) THEN Issues(found)
    ELSE IF ~IsDict(item_list[i])
    THEN ValidateListItems(item_list, path, required_fields, i + 1, found)
    ELSE LET r == ValidateRequired(item_list[i], IndexPath(path, i), required_fields, 1, found)
         IN  IF r.ok THEN ValidateListItems(item_list, path, required_fields, i + 1, r.issues)
             ELSE r

\* lines 33-51: _traverse; TraverseItems is the loop of line 40, TraverseList
\* the loop of line 50, found the issues appended so far
RECURSIVE Traverse(_, _, _), TraverseItems(_, _, _, _), TraverseList(_, _, _, _)
Traverse(node, path, found) ==
    IF IsDict(node)
    THEN IF HasKey(node, "value") /\ HasKey(node, "source")
         THEN LET r == ValidateField(node, path)
              IN  [issues |-> found \o r.issues, ok |-> r.ok]
         ELSE TraverseItems(node.v, path, 1, found)
    ELSE IF IsList(node)
    THEN LET r == IF EndsWith(path, KeyChars["work_experience"])
                  THEN ValidateListItems(node.v, path, RequiredFields["work_experience"], 1, found)
                  ELSE IF EndsWith(path, KeyChars["education"])
                  THEN ValidateListItems(node.v, path, RequiredFields["education"], 1, found)
                  ELSE Issues(found)
         IN  IF r.ok THEN TraverseList(node.v, path, 1, r.issues) ELSE r
    ELSE Issues(found)
TraverseItems(items, path, i, found) ==
    IF i > Len(items) THEN Issues(found)
    ELSE LET r == Traverse(items[i][2], KeyPath(path, items[i][1]), found)
         IN  IF r.ok THEN TraverseItems(items, path, i + 1, r.issues) ELSE r
TraverseList(items, path, i, found) ==
    IF i > Len(items) THEN Issues(found)
    ELSE LET r == Traverse(items[i], IndexPath(path, i), found)
         IN  IF r.ok THEN TraverseList(items, path, i + 1, r.issues) ELSE r

\* lines 24-31: validate; nothing is traversed when self.data is falsy
ValidateData(data) ==
    IF ~Truthy(data) THEN Issues(<<>>) ELSE Traverse(data, <<>>, <<>>)

-----------------------------------------------------------------------------
(* The configuration and the source documents the runs draw from *)

SourceNames == <<"A", "B", "C">>        \* config['data_sources'] in file order
Strategies == {"primary_wins", "highest_confidence_wins"}
MaxConfidence == 3                      \* confidences range over 0.1 .. MaxConfidence/10
Thresholds == {80}                      \* list_matching_threshold * 100
PriorityOrders == { <<2, 0, 1>> }       \* the 'priority' of A, B, C

NameSet == {SourceNames[i] : i \in 1..Len(SourceNames)}

\* position of a source in the configuration file
FilePos(n) == CHOOSE i \in 1..Len(SourceNames) : SourceNames[i] = n

Configs ==
    { [strategy |-> st, threshold |-> th,
       data_sources |-> [n \in NameSet |->
           [priority |-> pr[FilePos(n)], confidence |-> cf[n]]]] :
      st \in Strategies, th \in Thresholds, pr \in PriorityOrders,
      cf \in [NameSet -> 1..MaxConfidence] }

\* line 119, mutated: the sources are sorted by descending priority
BeforeDescending(cfg, a, b) ==
    \/ cfg.data_sources[a].priority > cfg.data_sources[b].priority
    \/ /\ cfg.data_sources[a].priority = cfg.data_sources[b].priority
       /\ FilePos(a) < FilePos(b)

\* line 119: sorted(config['data_sources'].items(), key=priority); the sort is
\* stable, sources of equal priority keep the order of the file
Before(cfg, a, b) ==
    \/ cfg.data_sources[a].priority < cfg.data_sources[b].priority
    \/ /\ cfg.data_sources[a].priority = cfg.data_sources[b].priority
       /\ FilePos(a) < FilePos(b)

Sources(cfg) ==
    CHOOSE seq \in [1..Len(SourceNames) -> NameSet] :
        \A i, j \in 1..Len(SourceNames) : i < j => Before(cfg, seq[i], seq[j])

Str(c) == PyStr(<<c>>)
Job(company, position, start) ==
    PyDict(<< <<"company", Str(company)>>, <<"position", Str(position)>>,
              <<"start", PyInt(start)>> >>)

\* a document that repeats a conflict entry of the reconciled tree, as a
\* reconciled file fed back as a source would, with one more key
EntryLikeDoc ==
    PyDict(<< <<"email", PyDict(<< <<"conflicts", PyList(<<
        PyDict(<< <<"value", Str("a")>>,
                  <<"source", Str("C")>>,
                  <<"timestamp", PyStr(Isoformat(1))>>,
                  <<"confidence", PyFloat(1)>>,
                  <<"x", Str("a")>> >>) >>)>> >>)>> >>)

\* the documents json.load may return
RawDocs ==
    { PyDict(<< <<"email", Str("a")>> >>),
      PyDict(<< <<"email", Str("b")>> >>),
      PyDict(<< <<"email", PyInt(1)>> >>),
      PyDict(<< <<"work_experience", Str("a")>>, <<"email", PyBool(TRUE)>> >>),
      PyDict(<< <<"email", PyDict(<< <<"x", Str("a")>> >>)>> >>),
      PyDict(<< <<"email", PyList(<<Str("a")>>)>>, <<"name", Str("b")>> >>),
      PyDict(<< <<"name", Str("a")>>, <<"email", Str("b")>> >>),
      PyDict(<< <<"work_experience", PyList(<<Job("a", "b", 1), Job("a", "b", 2)>>)>> >>),
      PyDict(<< <<"email", PyDict(<< <<"value", Str("a")>>, <<"x", Str("b")>> >>)>> >>) }

\* the documents of the runs in which a reconciled file comes back as a
\* source: the primary source holds a plain document
PlainDocs ==
    { PyDict(<< <<"email", Str("a")>> >>),
      PyDict(<< <<"email", Str("b")>> >>) }

FeedbackDocs == PlainDocs \cup {EntryLikeDoc}

\* a document that holds a mapping with a key 'conflicts' where the other
\* sources hold a scalar
ConflictsDoc ==
    PyDict(<< <<"email", PyDict(<< <<"conflicts", PyList(<<Str("x")>>)>> >>)>> >>)

\* the documents of the runs in which such a mapping meets a Field
ShapeDocs == PlainDocs \cup {ConflictsDoc}

\* the configurations of the runs that vary the order of the sources: every
\* assignment of priorities, ties included
MaxPriority == 2
OrderConfigs ==
    { [strategy |-> st, threshold |-> th,
       data_sources |-> [n \in NameSet |-> [priority |-> pr[n], confidence |-> cf[n]]]] :
      st \in Strategies, th \in Thresholds,
      pr \in [NameSet -> 0..MaxPriority], cf \in [NameSet -> 1..MaxConfidence] }

\* the configurations with a configuration error: a policy of an unknown
\* name, no policy at all
PolicyConfigs ==
    { [strategy |-> st, threshold |-> th,
       data_sources |-> [n \in NameSet |->
           [priority |-> pr[FilePos(n)], confidence |-> cf[n]]]] :
      st \in {"latest_wins", Absent}, th \in Thresholds, pr \in PriorityOrders,
      cf \in [NameSet -> 1..MaxConfidence] }

\* a document with a mapping that holds keys named 'value' and 'source'
LookalikeDoc(value) ==
    PyDict(<< <<"email", PyDict(<< <<"value", value>>, <<"source", Str("x")>> >>)>> >>)

LookalikeDocs == {LookalikeDoc(PyStr(<<>>)), LookalikeDoc(Str("a"))}

\* the documents of the runs the validator follows: values that are empty
\* or null, a list of scalars, a list of work_experience entries, and a
\* mapping that holds keys named 'value' and 'source' itself
ValidatorDocs ==
    { PyDict(<< <<"email", PyStr(<<>>)>> >>),
      PyDict(<< <<"email", PyNone>>, <<"name", Str("a")>> >>),
      PyDict(<< <<"email", Str("a")>> >>),
      PyDict(<< <<"email", Str("b")>>, <<"skills", PyList(<<PyStr(<<>>), Str("a")>>)>> >>),
      PyDict(<< <<"work_experience", PyList(<<
          PyDict(<< <<"company", Str("a")>>, <<"position", PyStr(<<>>)>> >>) >>)>> >>) }
    \cup LookalikeDocs


JobAt(company, position) ==
    PyDict(<< <<"company", PyStr(company)>>, <<"position", PyStr(position)>> >>)
WorkExperience(items) == PyDict(<< <<"work_experience", PyList(items)>> >>)

\* the documents of the runs that merge lists of work_experience entries:
\* 'ab cd' scores 80 against 'ab ce' and 60 against 'ab xy'; the last
\* document holds an entry without any key
ListDocs ==
    { WorkExperience(<<Job("a", "b", 1), Job("a", "b", 2)>>),
      WorkExperience(<<JobAt(<<"a", "b">>, <<"c", "d">>)>>),
      WorkExperience(<<JobAt(<<"a", "b">>, <<"c", "e">>)>>),
      WorkExperience(<<JobAt(<<"a", "b">>, <<"x", "y">>), JobAt(<<"a", "b">>, <<"c", "d">>)>>),
      WorkExperience(<<PyDict(<<>>)>>) }

\* the documents of the runs in which several incoming entries meet in one
\* pass: a single entry that both entries of the first document match, and
\* a document with two identical entries that match none of the others
PassDocs ==
    { WorkExperience(<<Job("a", "b", 1), Job("a", "b", 2)>>),
      WorkExperience(<<Job("a", "b", 3)>>),
      WorkExperience(<<JobAt(<<"a", "b">>, <<"c", "d">>)>>),
      WorkExperience(<<JobAt(<<"x", "y">>, <<"z">>), JobAt(<<"x", "y">>, <<"z">>)>>) }

\* the documents of the runs that validate lists of entries: a required
\* field that is empty, absent, a nested mapping or a nested list, an
\* education list with a scalar element, an element that is a nested list
EntryDocs ==
    { WorkExperience(<<JobAt(<<"a">>, <<>>), PyDict(<< <<"company", Str("a")>> >>)>>),
      PyDict(<< <<"education", PyList(<<
          PyDict(<< <<"institution", Str("a")>>, <<"degree", Str("b")>> >>),
          Str("x") >>)>> >>),
      WorkExperience(<<PyDict(<< <<"company", PyDict(<< <<"x", Str("a")>> >>)>>,
                                 <<"position", Str("b")>> >>)>>),
      WorkExperience(<<PyDict(<< <<"company", PyList(<<Str("a")>>)>>,
                                 <<"position", Str("b")>> >>)>>),
      WorkExperience(<<PyList(<<Str("a")>>)>>) }

\* the documents of the runs in which list items that are no mappings reach
\* the threshold: against an entry whose company reads ['a'] the nested list
\* ['a'] scores 91, against an element built from a scalar (two empty parts
\* joined by a space) the string ' ' scores 100
BracketEntry ==
    JobAt(<<"[", "'", "a", "'", "]">>, <<>>)
ItemDocs ==
    { WorkExperience(<<BracketEntry, Str(" ")>>),
      WorkExperience(<<Str(" "), PyList(<<Str("a")>>)>>) }

NoFile == [t |-> "nofile", v |-> <<>>]

-----------------------------------------------------------------------------
(* main() *)

Init ==
    /\ pc = "load_primary"
    /\ config \in Configs
    /\ merged_data = PyNone
    /\ baseline = PyNone
    /\ loads = <<>>
    /\ idx = 1
    /\ clock = 0
    /\ output = NoFile
    /\ issues = <<>>

\* lines 121-131: the primary source loads and becomes the baseline
LoadPrimaryFrom(docs) ==
    /\ pc = "load_primary"
    /\ \E primary_data \in docs :
        LET primary_source_name == Sources(config)[1]
        IN  /\ merged_data' = TransformToMergedFormat(primary_data, primary_source_name,
                                  config.data_sources[primary_source_name].confidence, clock)
            /\ loads' = <<[source |-> primary_source_name, doc |-> primary_data]>>
    /\ baseline' = merged_data'
    /\ pc' = "merge"
    /\ idx' = 2
    /\ clock' = clock + 1
    /\ UNCHANGED <<config, output, issues>>

LoadPrimary == LoadPrimaryFrom(RawDocs)

\* lines 126-128, mutated: a missing primary file is skipped, the merges start
\* from an empty tree
PrimaryNotFoundSkipped ==
    /\ pc = "load_primary"
    /\ pc' = "merge"
    /\ merged_data' = PyDict(<<>>)
    /\ idx' = 2
    /\ UNCHANGED <<config, baseline, loads, clock, output, issues>>

\* lines 126-128: the primary file is missing, main returns
PrimaryNotFound ==
    /\ pc = "load_primary"
    /\ pc' = "failed"
    /\ UNCHANGED <<config, merged_data, baseline, loads, idx, clock, output, issues>>

\* line 125: json.load raises on a malformed primary file, nothing catches it
PrimaryMalformed ==
    /\ pc = "load_primary"
    /\ pc' = "crashed"
    /\ UNCHANGED <<config, merged_data, baseline, loads, idx, clock, output, issues>>

\* lines 133-138: one iteration of the loop, the file loads and is merged; an
\* exception of merge_sources is not a FileNotFoundError and ends the run
MergeSourceFrom(docs) ==
    /\ pc = "merge"
    /\ idx <= Len(SourceNames)
    /\ \E new_data \in docs :
        LET source_name == Sources(config)[idx]
            r == MergeSources(merged_data, new_data, source_name, config, clock)
        IN  /\ merged_data' = r.data
            /\ loads' = Append(loads, [source |-> source_name, doc |-> new_data])
            /\ pc' = IF r.ok THEN "merge" ELSE "crashed"
    /\ idx' = idx + 1
    /\ clock' = clock + 1
    /\ UNCHANGED <<config, baseline, output, issues>>

MergeSource == MergeSourceFrom(RawDocs)

\* lines 139-141, mutated: a missing file ends the run as the primary one does
SourceNotFoundFatal ==
    /\ pc = "merge"
    /\ idx <= Len(SourceNames)
    /\ pc' = "failed"
    /\ UNCHANGED <<config, merged_data, baseline, loads, idx, clock, output, issues>>

\* lines 139-141: the file of the source is missing, the source is skipped
SourceNotFound ==
    /\ pc = "merge"
    /\ idx <= Len(SourceNames)
    /\ idx' = idx + 1
    /\ UNCHANGED <<pc, config, merged_data, baseline, loads, clock, output, issues>>

\* line 137: json.load raises on a malformed file, nothing catches it
SourceMalformed ==
    /\ pc = "merge"
    /\ idx <= Len(SourceNames)
    /\ pc' = "crashed"
    /\ UNCHANGED <<config, merged_data, baseline, loads, idx, clock, output, issues>>

\* lines 143-148: the loop is over, the tree is written
Save ==
    /\ pc = "merge"
    /\ idx > Len(SourceNames)
    /\ output' = merged_data
    /\ pc' = "done"
    /\ UNCHANGED <<config, merged_data, baseline, loads, idx, clock, issues>>

Next ==
    \/ LoadPrimary
    \/ PrimaryNotFound
    \/ PrimaryMalformed
    \/ MergeSource
    \/ SourceNotFound
    \/ SourceMalformed
    \/ Save

Spec == Init /\ [][Next]_vars

\* the same program on the documents of FeedbackDocs
FeedbackLoadPrimary == LoadPrimaryFrom(PlainDocs)
FeedbackMergeSource == MergeSourceFrom(FeedbackDocs)

FeedbackNext ==
    \/ FeedbackLoadPrimary
    \/ PrimaryNotFound
    \/ PrimaryMalformed
    \/ FeedbackMergeSource
    \/ SourceNotFound
    \/ SourceMalformed
    \/ Save

FeedbackSpec == Init /\ [][FeedbackNext]_vars

\* the same program on plain documents, under the configurations of
\* OrderConfigs
OrderInit ==
    /\ pc = "load_primary"
    /\ config \in OrderConfigs
    /\ merged_data = PyNone
    /\ baseline = PyNone
    /\ loads = <<>>
    /\ idx = 1
    /\ clock = 0
    /\ output = NoFile
    /\ issues = <<>>

OrderLoadPrimary == LoadPrimaryFrom(PlainDocs)
OrderMergeSource == MergeSourceFrom(PlainDocs)

OrderNext ==
    \/ OrderLoadPrimary
    \/ PrimaryNotFound
    \/ PrimaryMalformed
    \/ OrderMergeSource
    \/ SourceNotFound
    \/ SourceMalformed
    \/ Save

OrderSpec == OrderInit /\ [][OrderNext]_vars

\* the same program on plain documents, under the configurations of
\* PolicyConfigs
PolicyInit ==
    /\ pc = "load_primary"
    /\ config \in PolicyConfigs
    /\ merged_data = PyNone
    /\ baseline = PyNone
    /\ loads = <<>>
    /\ idx = 1
    /\ clock = 0
    /\ output = NoFile
    /\ issues = <<>>

PolicySpec == PolicyInit /\ [][OrderNext]_vars

\* validate_data.py lines 17-19 and 24-31: the validator loads the file the
\* run wrote and traverses it
Validate ==
    /\ pc = "done"
    /\ LET r == ValidateData(JsonRoundTrip(output))
       IN  /\ issues' = r.issues
           /\ pc' = IF r.ok THEN "validated" ELSE "validator_crashed"
    /\ UNCHANGED <<config, merged_data, baseline, loads, idx, clock, output>>

\* validate_data.py lines 20-27: there is no file, self.data is None and
\* validate returns at once
ValidateNoFile ==
    /\ pc \in {"failed", "crashed"}
    /\ output = NoFile
    /\ issues' = ValidateData(PyNone).issues
    /\ pc' = "validated"
    /\ UNCHANGED <<config, merged_data, baseline, loads, idx, clock, output>>

\* the merge on the documents of ValidatorDocs, then the validator
ValidateLoadPrimary == LoadPrimaryFrom(ValidatorDocs)
ValidateMergeSource == MergeSourceFrom(ValidatorDocs)

ValidateNext ==
    \/ ValidateLoadPrimary
    \/ PrimaryNotFound
    \/ PrimaryMalformed
    \/ ValidateMergeSource
    \/ SourceNotFound
    \/ SourceMalformed
    \/ Save
    \/ Validate
    \/ ValidateNoFile

ValidateSpec == Init /\ [][ValidateNext]_vars

\* the merge on the documents of EntryDocs, then the validator
EntryLoadPrimary == LoadPrimaryFrom(EntryDocs)
EntryMergeSource == MergeSourceFrom(EntryDocs)

EntryNext ==
    \/ EntryLoadPrimary
    \/ PrimaryNotFound
    \/ PrimaryMalformed
    \/ EntryMergeSource
    \/ SourceNotFound
    \/ SourceMalformed
    \/ Save
    \/ Validate
    \/ ValidateNoFile

EntrySpec == Init /\ [][EntryNext]_vars

\* the same program on the documents of ShapeDocs: the primary source holds
\* a plain document
ShapeLoadPrimary == LoadPrimaryFrom(PlainDocs)
ShapeMergeSource == MergeSourceFrom(ShapeDocs)

ShapeNext ==
    \/ ShapeLoadPrimary
    \/ PrimaryNotFound
    \/ PrimaryMalformed
    \/ ShapeMergeSource
    \/ SourceNotFound
    \/ SourceMalformed
    \/ Save

ShapeSpec == Init /\ [][ShapeNext]_vars

\* the same program on the documents of PassDocs
PassLoadPrimary == LoadPrimaryFrom(PassDocs)
PassMergeSource == MergeSourceFrom(PassDocs)

PassNext ==
    \/ PassLoadPrimary
    \/ PrimaryNotFound
    \/ PrimaryMalformed
    \/ PassMergeSource
    \/ SourceNotFound
    \/ SourceMalformed
    \/ Save

PassSpec == Init /\ [][PassNext]_vars

\* the same program on the documents of ItemDocs
ItemLoadPrimary == LoadPrimaryFrom(ItemDocs)
ItemMergeSource == MergeSourceFrom(ItemDocs)

ItemNext ==
    \/ ItemLoadPrimary
    \/ PrimaryNotFound
    \/ PrimaryMalformed
    \/ ItemMergeSource
    \/ SourceNotFound
    \/ SourceMalformed
    \/ Save

ItemSpec == Init /\ [][ItemNext]_vars

\* the same program on the documents of ListDocs
ListLoadPrimary == LoadPrimaryFrom(ListDocs)
ListMergeSource == MergeSourceFrom(ListDocs)

ListNext ==
    \/ ListLoadPrimary
    \/ PrimaryNotFound
    \/ PrimaryMalformed
    \/ ListMergeSource
    \/ SourceNotFound
    \/ SourceMalformed
    \/ Save

ListSpec == Init /\ [][ListNext]_vars

-----------------------------------------------------------------------------
(* Vocabulary of the properties *)

FieldKeys == <<"value", "source", "timestamp", "confidence", "conflicts">>
IsScalar(x) == x.t \in {"none", "bool", "int", "float", "str"}

\* exactly one Field: the five keys and nothing else, a scalar value
IsField(x) ==
    /\ IsDict(x)
    /\ [i \in 1..Len(x.v) |-> x.v[i][1]] = FieldKeys
    /\ IsScalar(GetKey(x, "value"))
    /\ GetKey(x, "source").t = "str"
    /\ GetKey(x, "timestamp").t = "str"
    /\ GetKey(x, "confidence").t = "float"
    /\ IsList(GetKey(x, "conflicts"))

\* a node that was made as a Field, whatever a later merge did to it: it has
\* the five keys, its value is no mapping, its conflicts are a list
FieldLike(x) ==
    /\ IsDict(x)
    /\ \A i \in 1..Len(FieldKeys) : HasKey(x, FieldKeys[i])
    /\ ~IsDict(GetKey(x, "value"))
    /\ IsList(GetKey(x, "conflicts"))

\* a path is a sequence of steps, a key of a mapping or a place in a list
KeyStep(k) == [k |-> k, i |-> 0]
ListStep(i) == [k |-> "", i |-> i]

RECURSIVE HasPath(_, _), At(_, _), FieldPaths(_), ScalarPaths(_)
HasPath(node, path) ==
    IF path = <<>> THEN TRUE
    ELSE IF path[1].i = 0
    THEN IsDict(node) /\ HasKey(node, path[1].k)
         /\ HasPath(GetKey(node, path[1].k), Tail(path))
    ELSE IsList(node) /\ path[1].i <= Len(node.v)
         /\ HasPath(node.v[path[1].i], Tail(path))
At(node, path) ==
    IF path = <<>> THEN node
    ELSE IF path[1].i = 0 THEN At(GetKey(node, path[1].k), Tail(path))
    ELSE At(node.v[path[1].i], Tail(path))

\* the paths of the Fields of a reconciled tree
FieldPaths(node) ==
    IF FieldLike(node) THEN {<<>>}
    ELSE IF IsDict(node)
    THEN UNION {{<<KeyStep(node.v[i][1])>> \o q : q \in FieldPaths(node.v[i][2])} :
                i \in 1..Len(node.v)}
    ELSE IF IsList(node)
    THEN UNION {{<<ListStep(i)>> \o q : q \in FieldPaths(node.v[i])} :
                i \in 1..Len(node.v)}
    ELSE {}

\* the paths of a raw document that lead through mappings only to a scalar:
\* the places merge_sources visits once, by key
ScalarPaths(raw) ==
    IF IsDict(raw)
    THEN UNION {{<<KeyStep(raw.v[i][1])>> \o q : q \in ScalarPaths(raw.v[i][2])} :
                i \in 1..Len(raw.v)}
    ELSE IF IsList(raw) THEN {}
    ELSE {<<>>}

IsPrefix(s, t) == Len(s) <= Len(t) /\ SubSeq(t, 1, Len(s)) = s

\* the step is a merge_sources call that returned
MergeReturned == pc = "merge" /\ clock' = clock + 1 /\ pc' = "merge"
\* the step is a merge_sources call, returned or raised
MergeCalled == pc = "merge" /\ clock' = clock + 1
\* its arguments
NewData == loads'[Len(loads')].doc
SourceName == loads'[Len(loads')].source
NewConfidence == config.data_sources[SourceName].confidence

\* merge_sources resolves the scalar at path p of new_data against a Field
Meets(p) ==
    /\ MergeReturned
    /\ p \in ScalarPaths(NewData)
    /\ HasPath(merged_data, p)
    /\ FieldLike(At(merged_data, p))

Differs(p) == ~PyEq(GetKey(At(merged_data, p), "value"), At(NewData, p))
FieldConfidence(p) == NumValue(GetKey(At(merged_data, p), "confidence"))
Conflicts(node) == GetKey(node, "conflicts").v

-----------------------------------------------------------------------------
(* Properties *)

Hcw == config.strategy = "highest_confidence_wins"
EmailPath == <<KeyStep("email")>>
\* the scalar a loaded document holds under 'email', if it holds one
HasEmail(n) ==
    /\ n <= Len(loads)
    /\ HasKey(loads[n].doc, "email")
    /\ IsScalar(GetKey(loads[n].doc, "email"))
Email(n) == GetKey(loads[n].doc, "email")
ConfidenceOf(n) == config.data_sources[loads[n].source].confidence

\* C1: under highest_confidence_wins, a merge that meets a Field whose value
\* differs from the incoming scalar, with a strictly greater confidence,
\* makes the incoming value, source and confidence the Field's, and appends
\* the previous winner (value, source, timestamp, confidence, no conflicts
\* sub-list) as the last conflict entry.
C1_HigherConfidenceTakesOver ==
    [][MergeReturned => \A p \in ScalarPaths(NewData) :
        (Meets(p) /\ Hcw /\ Differs(p) /\ NewConfidence > FieldConfidence(p)) =>
            LET old == At(merged_data, p)
                new == At(merged_data', p)
                entry == Conflicts(new)[Len(Conflicts(new))]
            IN  /\ GetKey(new, "value") = At(NewData, p)
                /\ GetKey(new, "source") = PyStr(<<SourceName>>)
                /\ GetKey(new, "confidence") = PyFloat(NewConfidence)
                /\ Len(Conflicts(new)) = Len(Conflicts(old)) + 1
                /\ SubSeq(Conflicts(new), 1, Len(Conflicts(old))) = Conflicts(old)
                /\ ~HasKey(entry, "conflicts")
                /\ \A k \in {"value", "source", "timestamp", "confidence"} :
                       HasKey(entry, k) /\ GetKey(entry, k) = GetKey(old, k)
    ]_vars

\* C1 witness: A-like baseline 'a' at confidence 1, then 'b' at a higher
\* confidence took the Field over and 'a' is the only conflict entry
C1_Witness ==
    /\ Hcw /\ pc = "merge" /\ Len(loads) = 2
    /\ HasEmail(1) /\ HasEmail(2)
    /\ Email(1) = Str("a") /\ Email(2) = Str("b")
    /\ ConfidenceOf(1) < ConfidenceOf(2)
    /\ FieldLike(At(merged_data, EmailPath))
    /\ GetKey(At(merged_data, EmailPath), "value") = Str("b")
    /\ Len(Conflicts(At(merged_data, EmailPath))) = 1
    /\ GetKey(Conflicts(At(merged_data, EmailPath))[1], "value") = Str("a")

\* C2: under highest_confidence_wins, three sources of confidences
\* c1 < c2 < c3, merged in that order, with pairwise different scalars at one
\* path: the Field ends with the value and source of the third and exactly
\* two conflict entries, the first source's value, then the second's.
C2_ThreeSourcesInOrder ==
    ( /\ Hcw /\ pc \in {"merge", "done"} /\ Len(loads) = 3
      /\ HasEmail(1) /\ HasEmail(2) /\ HasEmail(3)
      /\ ~PyEq(Email(1), Email(2)) /\ ~PyEq(Email(2), Email(3))
      /\ ~PyEq(Email(1), Email(3))
      /\ ConfidenceOf(1) < ConfidenceOf(2) /\ ConfidenceOf(2) < ConfidenceOf(3) )
    => LET f == At(merged_data, EmailPath)
       IN  /\ GetKey(f, "value") = Email(3)
           /\ GetKey(f, "source") = PyStr(<<loads[3].source>>)
           /\ Len(Conflicts(f)) = 2
           /\ GetKey(Conflicts(f)[1], "value") = Email(1)
           /\ GetKey(Conflicts(f)[1], "source") = PyStr(<<loads[1].source>>)
           /\ GetKey(Conflicts(f)[2], "value") = Email(2)
           /\ GetKey(Conflicts(f)[2], "source") = PyStr(<<loads[2].source>>)

C2_Witness ==
    /\ Hcw /\ pc = "done" /\ Len(loads) = 3
    /\ HasEmail(1) /\ HasEmail(2) /\ HasEmail(3)
    /\ Email(1) = Str("a") /\ Email(2) = Str("b") /\ Email(3) = PyInt(1)
    /\ ConfidenceOf(1) < ConfidenceOf(2) /\ ConfidenceOf(2) < ConfidenceOf(3)
    /\ GetKey(At(output, EmailPath), "value") = PyInt(1)
    /\ Len(Conflicts(At(output, EmailPath))) = 2

\* C3: under highest_confidence_wins, an incoming scalar that differs from
\* the Field's value and whose confidence is less than or equal to the
\* Field's leaves value, source, timestamp and confidence as they are and
\* appends exactly one conflict entry with the incoming value, source and
\* confidence.
C3_LowerOrEqualConfidenceIsRecorded ==
    [][MergeReturned => \A p \in ScalarPaths(NewData) :
        (Meets(p) /\ Hcw /\ Differs(p) /\ NewConfidence <= FieldConfidence(p)) =>
            LET old == At(merged_data, p)
                new == At(merged_data', p)
                entry == Conflicts(new)[Len(Conflicts(new))]
            IN  /\ \A k \in {"value", "source", "timestamp", "confidence"} :
                       GetKey(new, k) = GetKey(old, k)
                /\ Len(Conflicts(new)) = Len(Conflicts(old)) + 1
                /\ SubSeq(Conflicts(new), 1, Len(Conflicts(old))) = Conflicts(old)
                /\ GetKey(entry, "value") = At(NewData, p)
                /\ GetKey(entry, "source") = PyStr(<<SourceName>>)
                /\ GetKey(entry, "confidence") = PyFloat(NewConfidence)
    ]_vars

\* C3 witness: a tie, 'a' then 'b' at the same confidence, 'a' still wins
C3_Witness ==
    /\ Hcw /\ pc = "merge" /\ Len(loads) = 2
    /\ HasEmail(1) /\ HasEmail(2)
    /\ Email(1) = Str("a") /\ Email(2) = Str("b")
    /\ ConfidenceOf(1) = ConfidenceOf(2)
    /\ GetKey(At(merged_data, EmailPath), "value") = Str("a")
    /\ Len(Conflicts(At(merged_data, EmailPath))) = 1
    /\ GetKey(Conflicts(At(merged_data, EmailPath))[1], "value") = Str("b")

\* C4: under primary_wins every Field of the baseline keeps the value, source
\* and confidence (and timestamp) the baseline gave it, whatever is merged
\* afterwards.
C4_PrimaryWinsKeepsBaseline ==
    (config.strategy = "primary_wins" /\ pc \in {"merge", "done", "crashed"}
     /\ Len(loads) >= 1)
    => \A p \in FieldPaths(baseline) :
          /\ HasPath(merged_data, p)
          /\ \A k \in {"value", "source", "timestamp", "confidence"} :
                /\ HasKey(At(merged_data, p), k)
                /\ GetKey(At(merged_data, p), k) = GetKey(At(baseline, p), k)

\* C4 witness: primary_wins, two merges of other values at higher
\* confidence after the baseline, which still holds its value
C4_Witness ==
    /\ config.strategy = "primary_wins" /\ pc = "done" /\ Len(loads) = 3
    /\ HasEmail(1) /\ HasEmail(2) /\ HasEmail(3)
    /\ Email(1) = Str("a") /\ Email(2) = Str("b") /\ Email(3) = PyInt(1)
    /\ ConfidenceOf(1) < ConfidenceOf(2) /\ ConfidenceOf(2) < ConfidenceOf(3)
    /\ GetKey(At(merged_data, EmailPath), "value") = Str("a")
    /\ Len(Conflicts(At(merged_data, EmailPath))) = 2

\* C5: an incoming scalar equal to the Field's value leaves the Field as it
\* is (value, source, timestamp, confidence, conflicts), under either policy
\* and whatever the confidences.
C5_EqualValueIsNoOp ==
    [][MergeReturned => \A p \in ScalarPaths(NewData) :
        (Meets(p) /\ ~Differs(p)) => At(merged_data', p) = At(merged_data, p)
    ]_vars

\* C5 witness: 1 then True (equal in Python) at a strictly higher confidence
\* under highest_confidence_wins; the Field still is the baseline's
C5_Witness ==
    /\ Hcw /\ pc = "merge" /\ Len(loads) = 2
    /\ HasEmail(1) /\ HasEmail(2)
    /\ Email(1) = PyInt(1) /\ Email(2) = PyBool(TRUE)
    /\ ConfidenceOf(1) < ConfidenceOf(2)
    /\ At(merged_data, EmailPath) = At(baseline, EmailPath)

\* the raw tree a reconciled tree stands for: every Field replaced by its value
RECURSIVE RawOf(_)
RawOf(node) ==
    IF FieldLike(node) THEN GetKey(node, "value")
    ELSE IF IsDict(node)
    THEN PyDict([i \in 1..Len(node.v) |-> <<node.v[i][1], RawOf(node.v[i][2])>>] \o <<>>)
    ELSE IF IsList(node)
    THEN PyList([i \in 1..Len(node.v) |-> RawOf(node.v[i])] \o <<>>)
    ELSE node

\* C6: merging a source whose tree holds the very values of the reconciled
\* tree changes no Field's value, source or confidence and adds no conflict
\* entry to any Field.
C6_IdenticalSourceIsNoOp ==
    [][(MergeCalled /\ PyEq(RawOf(merged_data), NewData)) =>
        \A p \in FieldPaths(merged_data) :
            /\ HasPath(merged_data', p)
            /\ \A k \in {"value", "source", "confidence"} :
                  GetKey(At(merged_data', p), k) = GetKey(At(merged_data, p), k)
            /\ Len(Conflicts(At(merged_data', p))) = Len(Conflicts(At(merged_data, p)))
    ]_vars

\* node is what transform_to_merged_format must make of raw: the same keys in
\* the same order, the same list places, a fresh Field for every scalar
RECURSIVE TransformedFrom(_, _, _, _)
TransformedFrom(node, raw, source_name, confidence) ==
    IF IsDict(raw)
    THEN /\ IsDict(node)
         /\ Len(node.v) = Len(raw.v)
         /\ \A i \in 1..Len(raw.v) :
               /\ node.v[i][1] = raw.v[i][1]
               /\ TransformedFrom(node.v[i][2], raw.v[i][2], source_name, confidence)
    ELSE IF IsList(raw)
    THEN /\ IsList(node)
         /\ Len(node.v) = Len(raw.v)
         /\ \A i \in 1..Len(raw.v) :
               TransformedFrom(node.v[i], raw.v[i], source_name, confidence)
    ELSE /\ IsField(node)
         /\ GetKey(node, "value") = raw
         /\ GetKey(node, "source") = PyStr(<<source_name>>)
         /\ GetKey(node, "confidence") = PyFloat(confidence)
         /\ Conflicts(node) = <<>>

\* C7: the baseline transformation keeps the structure of the document and
\* puts in the place of every scalar a Field with that value, the source's
\* name and confidence and no conflicts; a run that reconciles the baseline
\* alone ends with that tree.
C7_BaselineIsTransformedDocument ==
    (pc \in {"merge", "done"} /\ Len(loads) = 1)
    => /\ TransformedFrom(merged_data, loads[1].doc, loads[1].source, ConfidenceOf(1))
       /\ \A p \in FieldPaths(merged_data) : Conflicts(At(merged_data, p)) = <<>>
       /\ pc = "done" => output = merged_data

\* C7 witness: the document with a list of mappings was the only one loaded
\* and the run wrote its tree
C7_Witness ==
    /\ pc = "done" /\ Len(loads) = 1
    /\ HasKey(loads[1].doc, "work_experience")
    /\ IsList(GetKey(loads[1].doc, "work_experience"))
    /\ Cardinality(FieldPaths(output)) = 6

\* a reconciled node: one Field, or a mapping or a sequence of reconciled nodes
RECURSIVE WellFormed(_)
WellFormed(node) ==
    IF IsDict(node) /\ HasKey(node, "value") /\ ~IsDict(GetKey(node, "value"))
    THEN IsField(node)
    ELSE IF IsDict(node) THEN \A i \in 1..Len(node.v) : WellFormed(node.v[i][2])
    ELSE IF IsList(node) THEN \A i \in 1..Len(node.v) : WellFormed(node.v[i])
    ELSE FALSE

\* C8: after the baseline and after any merges the reconciled tree is well
\* formed: every leaf exactly one Field with a scalar value, every other
\* position a mapping or a sequence of reconciled nodes.
C8_TreeIsWellFormed ==
    pc \in {"merge", "done"} => WellFormed(merged_data)

\* the combinations merge_sources has no branch for
Mismatch(existing, incoming) ==
    /\ ~(IsDict(incoming) /\ IsDict(existing) /\ ~FieldLike(existing))
    /\ ~(IsList(incoming) /\ IsList(existing))
    /\ ~(IsScalar(incoming) /\ FieldLike(existing))

\* C9: where the shapes of the existing node and of the incoming value
\* disagree at a key, the merge leaves the subtree at that key as it is and
\* raises no error.
C9_ShapeMismatchIsSkipped ==
    [][MergeCalled =>
        /\ \A i \in 1..Len(NewData.v) :
              LET k == NewData.v[i][1]
              IN  (HasKey(merged_data, k)
                   /\ Mismatch(GetKey(merged_data, k), NewData.v[i][2]))
                  => GetKey(merged_data', k) = GetKey(merged_data, k)
        /\ (\A i \in 1..Len(NewData.v) :
              LET k == NewData.v[i][1]
              IN  HasKey(merged_data, k)
                  => Mismatch(GetKey(merged_data, k), NewData.v[i][2]))
           => pc' # "crashed"
    ]_vars

\* C10: every merge leaves the conflicts list of every Field as a prefix of
\* the new one.
C10_ConflictsOnlyGrow ==
    [][MergeCalled =>
        \A p \in FieldPaths(merged_data) :
            /\ HasPath(merged_data', p)
            /\ FieldLike(At(merged_data', p))
            /\ IsPrefix(Conflicts(At(merged_data, p)), Conflicts(At(merged_data', p)))
    ]_vars

\* the places of a tree: every mapping, every key of it, every list and every
\* place of it
RECURSIVE StructPaths(_)
StructPaths(node) ==
    {<<>>} \cup
    IF IsDict(node)
    THEN UNION {{<<KeyStep(node.v[i][1])>> \o q : q \in StructPaths(node.v[i][2])} :
                i \in 1..Len(node.v)}
    ELSE IF IsList(node)
    THEN UNION {{<<ListStep(i)>> \o q : q \in StructPaths(node.v[i])} :
                i \in 1..Len(node.v)}
    ELSE {}

\* the place p of the tree is a mapping after the step if it was one, a list
\* if it was one
KeepsKind(p) ==
    /\ IsDict(At(merged_data, p)) => IsDict(At(merged_data', p))
    /\ IsList(At(merged_data, p)) => IsList(At(merged_data', p))

\* the place p lies in the value a Field holds
RECURSIVE InFieldValue(_, _)
InFieldValue(node, p) ==
    /\ p # <<>>
    /\ \/ FieldLike(node) /\ p[1] = KeyStep("value") /\ Len(p) > 1
       \/ InFieldValue(At(node, <<p[1]>>), Tail(p))

\* C11: a merge removes no structure: every key of every mapping is there
\* after the merge, every list holds a node at every place it held one, and a
\* mapping stays a mapping, a list a list (lists gain elements at the end).
C11_StructureIsKept ==
    [][MergeCalled =>
        \A p \in StructPaths(merged_data) :
            HasPath(merged_data', p) /\ KeepsKind(p)
    ]_vars

\* what does hold: the same, but for the places inside the value of a Field
C11_StructureIsKeptOutsideValues ==
    [][MergeCalled =>
        \A p \in StructPaths(merged_data) :
            \/ InFieldValue(merged_data, p)
            \/ HasPath(merged_data', p) /\ (FieldLike(At(merged_data, SubSeq(p, 1, Len(p) - 1)))
                                            \/ KeepsKind(p))
    ]_vars

\* the highest score of an incoming item against the items of a list, 0
\* against the empty list
BestScore(new_item, existing, key) ==
    LET scores == {FuzzRatio(GetComparisonString(new_item, key),
                             GetComparisonString(existing[j], key)) :
                      j \in 1..Len(existing)} \cup {0}
    IN  CHOOSE m \in scores : \A x \in scores : x <= m

\* the incoming items of a list whose best score is below the threshold
BelowThreshold(new_value, existing, key) ==
    {n \in 1..Len(new_value) : BestScore(new_value[n], existing, key) < config.threshold}

\* the key of the i-th item of new_data holds a list and meets a list
ListMeetsList(i) ==
    /\ HasKey(merged_data, NewData.v[i][1])
    /\ IsList(NewData.v[i][2])
    /\ IsList(GetKey(merged_data, NewData.v[i][1]))

\* C12: in a list merge an incoming item whose best score reaches the
\* threshold adds nothing to the list, every other one is appended: the
\* list is as long as before plus the number of incoming items whose best
\* score is below the threshold.
C12_LengthGrowsByUnmatched ==
    [][MergeReturned =>
        \A i \in 1..Len(NewData.v) :
            ListMeetsList(i) =>
                LET k == NewData.v[i][1]
                    before == GetKey(merged_data, k).v
                IN  Len(GetKey(merged_data', k).v) =
                        Len(before) + Cardinality(BelowThreshold(NewData.v[i][2].v, before, k))
    ]_vars

\* what does hold: the same for the lists whose existing items are all
\* non-empty mappings
C12_LengthGrowsByUnmatchedOfNonEmpty ==
    [][MergeReturned =>
        \A i \in 1..Len(NewData.v) :
            (ListMeetsList(i)
             /\ \A j \in 1..Len(GetKey(merged_data, NewData.v[i][1]).v) :
                    Truthy(GetKey(merged_data, NewData.v[i][1]).v[j]))
            =>  LET k == NewData.v[i][1]
                    before == GetKey(merged_data, k).v
                IN  Len(GetKey(merged_data', k).v) =
                        Len(before) + Cardinality(BelowThreshold(NewData.v[i][2].v, before, k))
    ]_vars

\* a merge met a score of exactly the threshold and the list kept its length
C12_BoundaryMerged ==
    /\ pc = "merge" /\ Len(loads) = 2
    /\ loads[1].doc = WorkExperience(<<JobAt(<<"a", "b">>, <<"c", "d">>)>>)
    /\ loads[2].doc = WorkExperience(<<JobAt(<<"a", "b">>, <<"c", "e">>)>>)
    /\ BestScore(loads[2].doc.v[1][2].v[1], GetKey(baseline, "work_experience").v,
                 "work_experience") = config.threshold
    /\ Len(GetKey(merged_data, "work_experience").v) = 1

\* the incoming items of a list that equal the value no existing element was
\* built from
WithoutEqual(new_value, existing) ==
    {n \in 1..Len(new_value) :
        \A j \in 1..Len(existing) : ~PyEq(RawOf(existing[j]), new_value[n])}

\* C13: under a key other than work_experience and education an incoming
\* item corresponds to an existing element exactly when it equals the value
\* the element was built from: the list is as long as before plus the
\* number of incoming items that equal no existing element.
C13_EqualItemIsNotAppendedAgain ==
    [][MergeReturned =>
        \A i \in 1..Len(NewData.v) :
            (ListMeetsList(i) /\ NewData.v[i][1] \notin DOMAIN KeyFields) =>
                LET k == NewData.v[i][1]
                    before == GetKey(merged_data, k).v
                IN  Len(GetKey(merged_data', k).v) =
                        Len(before) + Cardinality(WithoutEqual(NewData.v[i][2].v, before))
    ]_vars

Priority(n) == config.data_sources[n].priority

\* the tree the first n loaded documents give when each is merged into the
\* result of the ones before it
RECURSIVE Accumulated(_)
Accumulated(n) ==
    IF n = 1
    THEN TransformToMergedFormat(loads[1].doc, loads[1].source, ConfidenceOf(1), 0)
    ELSE MergeSources(Accumulated(n - 1), loads[n].doc, loads[n].source, config, n - 1).data

\* C14: the sources are taken in ascending order of priority: the one with
\* the lowest number is transformed as the baseline without any merge, every
\* other source that loads is merged once, and each merge works on the tree
\* the merges before it left.
C14_SourcesInPriorityOrder ==
    pc \in {"merge", "done"} =>
        /\ Len(loads) >= 1
        /\ \A n \in NameSet : Priority(loads[1].source) <= Priority(n)
        /\ baseline = TransformToMergedFormat(loads[1].doc, loads[1].source, ConfidenceOf(1), 0)
        /\ \A i, j \in 1..Len(loads) :
              i < j => /\ loads[i].source # loads[j].source
                       /\ Priority(loads[i].source) <= Priority(loads[j].source)
        /\ merged_data = Accumulated(Len(loads))
        /\ pc = "done" => output = merged_data

\* C14 witness: three sources whose priorities run against the order of the
\* file were all merged, the second overruled the first and the third the
\* second, and the tree was written
C14_Witness ==
    /\ pc = "done" /\ Len(loads) = 3
    /\ Priority("C") < Priority("B") /\ Priority("B") < Priority("A")
    /\ loads[1].source = "C" /\ loads[3].source = "A"
    /\ Len(Conflicts(GetKey(output, "email"))) = 2
    /\ GetKey(GetKey(output, "email"), "source") = Str("A")

\* C15: a missing file of a source other than the baseline does not end the
\* run: the step that finds it missing loads nothing, leaves the tree as it
\* is and goes on to the next source, and the tree written at the end is the
\* one the loaded sources give, the later ones included.
C15_MissingSourceIsSkipped ==
    [][ /\ pc' = "failed" => pc = "load_primary"
        /\ (pc = "merge" /\ loads' = loads /\ pc' \notin {"crashed", "done"})
           => (idx' = idx + 1 /\ merged_data' = merged_data /\ pc' = "merge")
        /\ pc' = "done"
           => /\ output' = merged_data'
              /\ merged_data' = Accumulated(Len(loads))
    ]_vars

\* C15 witness: the second source was missing, the third was merged and
\* recorded a conflict, and the tree was written
C15_Witness ==
    /\ pc = "done" /\ Len(loads) = 2
    /\ loads[2].source = Sources(config)[3]
    /\ HasEmail(1) /\ HasEmail(2)
    /\ output = merged_data
    /\ Len(Conflicts(GetKey(output, "email"))) = 1

\* C16: when the baseline source does not load the run ends there: no tree
\* is made, no source is merged, nothing is written, and a run that ended
\* takes no further step.
C16_BaselineFailureIsFatal ==
    [][ /\ pc \notin {"failed", "crashed"}
        /\ (pc = "load_primary" /\ loads' = <<>>)
           => /\ pc' \in {"failed", "crashed"}
              /\ merged_data' = PyNone /\ output' = NoFile /\ idx' = 1
    ]_vars

\* C16 witness: the file of the baseline was missing and the run is over
\* with nothing loaded and nothing written
C16_Witness ==
    pc = "failed" /\ loads = <<>> /\ merged_data = PyNone /\ output = NoFile

\* C17: a source other than the baseline that is unreadable or malformed, or
\* whose content makes the merge raise, does not end the run: a run ends
\* without writing only when the baseline did not load.
C17_MalformedSourceIsNotFatal ==
    pc = "crashed" => loads = <<>>

\* the same for the merges alone: no call of merge_sources ends the run
C17_MergeErrorIsNotFatal ==
    [][MergeCalled => pc' # "crashed"]_vars

\* C18: with a policy that is missing or is none of the two known names the
\* run stops before the baseline is transformed: no tree is made, no source
\* is merged, nothing is written.
C18_ConfigurationErrorAborts ==
    config.strategy \notin Strategies
    => merged_data = PyNone /\ loads = <<>> /\ output = NoFile

\* the last part alone: under such a policy nothing is written
C18_UnknownPolicyWritesNothing ==
    config.strategy \notin Strategies => output = NoFile

\* what the code does with a policy of an unknown name: what it does under
\* primary_wins, the baseline keeps every value
C18_UnknownPolicyRunsAsPrimaryWins ==
    (config.strategy = "latest_wins" /\ pc \in {"merge", "done"})
    => \A p \in FieldPaths(baseline) :
          \A k \in {"value", "source", "confidence"} :
              GetKey(At(merged_data, p), k) = GetKey(At(baseline, p), k)

\* the path of a place of the tree as the validator writes it
RECURSIVE PathText(_, _)
PathText(p, path) ==
    IF p = <<>> THEN path
    ELSE IF p[1].i = 0 THEN PathText(Tail(p), KeyPath(path, p[1].k))
    ELSE PathText(Tail(p), IndexPath(path, p[1].i))

\* the issues of a type reported at a path
IssuesAt(type, path) ==
    {i \in 1..Len(issues) : issues[i].type = type /\ issues[i].path = path}

\* the Field at path p of the written tree holds no value
ValueMissing(p) == IsNoneOrEmpty(GetKey(At(output, p), "value"))

\* no document of the run holds a mapping with keys named 'value' and 'source'
NoLookalike == \A n \in 1..Len(loads) : loads[n].doc \notin LookalikeDocs

\* C19: the issue list holds exactly one 'Missing Value' issue for each
\* Field of the tree whose value is null or the empty string, at the path of
\* that Field, and no 'Missing Value' issue for any other Field.
C19_MissingValueIssues ==
    pc = "validated" /\ output # NoFile =>
        /\ \A p \in FieldPaths(output) :
              Cardinality(IssuesAt("Missing Value", PathText(p, <<>>))) =
                  IF ValueMissing(p) THEN 1 ELSE 0
        /\ \A i \in 1..Len(issues) :
              issues[i].type = "Missing Value"
              => \E p \in FieldPaths(output) :
                    PathText(p, <<>>) = issues[i].path /\ ValueMissing(p)

\* what does hold: the same for the runs without such a mapping
C19_MissingValueIssuesWithoutLookalike ==
    (pc = "validated" /\ output # NoFile /\ NoLookalike) =>
        /\ \A p \in FieldPaths(output) :
              Cardinality(IssuesAt("Missing Value", PathText(p, <<>>))) =
                  IF ValueMissing(p) THEN 1 ELSE 0
        /\ \A i \in 1..Len(issues) :
              issues[i].type = "Missing Value"
              => \E p \in FieldPaths(output) :
                    PathText(p, <<>>) = issues[i].path /\ ValueMissing(p)

\* the conflicts recorded in the Field at path p of the written tree
ConflictsAt(p) ==
    IF HasKey(At(output, p), "conflicts") /\ IsList(GetKey(At(output, p), "conflicts"))
    THEN Len(GetKey(At(output, p), "conflicts").v)
    ELSE 0

\* C20: the issue list holds exactly one 'Conflict Found' issue for each Field
\* whose conflict list has one or more entries, at the path of that Field and
\* stating the number of its entries, and none for a Field whose conflict
\* list is empty.
C20_ConflictFoundIssues ==
    pc = "validated" /\ output # NoFile =>
        \A p \in FieldPaths(output) :
            /\ Cardinality(IssuesAt("Conflict Found", PathText(p, <<>>))) =
                   IF ConflictsAt(p) >= 1 THEN 1 ELSE 0
            /\ \A i \in IssuesAt("Conflict Found", PathText(p, <<>>)) :
                   issues[i].count = ConflictsAt(p)

\* what does hold: the same for the runs without a mapping that holds keys
\* named 'value' and 'source'
C20_ConflictFoundIssuesWithoutLookalike ==
    (pc = "validated" /\ output # NoFile /\ NoLookalike) =>
        \A p \in FieldPaths(output) :
            /\ Cardinality(IssuesAt("Conflict Found", PathText(p, <<>>))) =
                   IF ConflictsAt(p) >= 1 THEN 1 ELSE 0
            /\ \A i \in IssuesAt("Conflict Found", PathText(p, <<>>)) :
                   issues[i].count = ConflictsAt(p)

\* a run in which a Field with two conflicts is reported
C20_TwoConflictsReported ==
    /\ pc = "validated" /\ output # NoFile /\ NoLookalike
    /\ \E p \in FieldPaths(output) :
          /\ ConflictsAt(p) = 2
          /\ IssuesAt("Conflict Found", PathText(p, <<>>)) # {}

\* the keys of the lists of entries
EntryKeys == {"work_experience", "education"}

\* the elements of the list of entries under key k that are mappings
Entries(k) ==
    IF IsDict(output) /\ HasKey(output, k) /\ IsList(GetKey(output, k))
    THEN {i \in 1..Len(GetKey(output, k).v) : IsDict(GetKey(output, k).v[i])}
    ELSE {}
Entry(k, i) == GetKey(output, k).v[i]

\* the required field f is absent from the entry, or holds a Field whose
\* value is null or empty, or holds an empty mapping
LacksRequired(entry, f) ==
    \/ ~HasKey(entry, f)
    \/ FieldLike(GetKey(entry, f)) /\ IsNoneOrEmpty(GetKey(GetKey(entry, f), "value"))
    \/ GetKey(entry, f) = PyDict(<<>>)

\* the 'Missing Required Field' issues reported at the i-th entry of the list
\* under k for the field f
RequiredIssues(k, i, f) ==
    {n \in 1..Len(issues) :
        /\ issues[n].type = "Missing Required Field"
        /\ issues[n].path = IndexPath(KeyChars[k], i)
        /\ issues[n].source = PyStr(KeyChars[f])}

\* the required field f of the entry holds a mapping that is no Field
HoldsMapping(entry, f) ==
    /\ HasKey(entry, f)
    /\ IsDict(GetKey(entry, f))
    /\ ~FieldLike(GetKey(entry, f))
    /\ GetKey(entry, f) # PyDict(<<>>)

\* C21: for each element of a work_experience list and of an education
\* list the validator reports one 'Missing Required Field' issue at the path
\* of the element for each required field that is absent or whose value is
\* null or empty, and none for a required field that is present with a
\* non-empty value.
C21_MissingRequiredFieldIssues ==
    pc = "validated" /\ output # NoFile =>
        \A k \in EntryKeys : \A i \in Entries(k) :
            \A n \in 1..Len(RequiredFields[k]) :
                Cardinality(RequiredIssues(k, i, RequiredFields[k][n])) =
                    IF LacksRequired(Entry(k, i), RequiredFields[k][n]) THEN 1 ELSE 0

\* what does hold: the same for the required fields that do not hold a
\* nested mapping
C21_MissingRequiredFieldIssuesOfFields ==
    pc = "validated" /\ output # NoFile =>
        \A k \in EntryKeys : \A i \in Entries(k) :
            \A n \in 1..Len(RequiredFields[k]) :
                ~HoldsMapping(Entry(k, i), RequiredFields[k][n])
                => Cardinality(RequiredIssues(k, i, RequiredFields[k][n])) =
                       IF LacksRequired(Entry(k, i), RequiredFields[k][n]) THEN 1 ELSE 0

\* an entry of a list of entries holds something that is no mapping under
\* one of its required fields
HoldsNoMapping ==
    \E k \in EntryKeys : \E i \in Entries(k) : \E n \in 1..Len(RequiredFields[k]) :
        /\ HasKey(Entry(k, i), RequiredFields[k][n])
        /\ ~IsDict(GetKey(Entry(k, i), RequiredFields[k][n]))

\* C22: the validator never raises on a well-formed reconciled tree, entries
\* whose identity key holds a nested list or mapping and elements that are no
\* mappings included: validate completes and only reports issues.
C22_ValidatorNeverRaises ==
    pc = "validator_crashed" => ~WellFormed(output)

\* what does hold: the validator raises only when a required field of an
\* entry holds something that is no mapping
C22_ValidatorRaisesOnlyOnNoMapping ==
    /\ pc = "validator_crashed" => HoldsNoMapping
    /\ pc = "validated" /\ output # NoFile => ~HoldsNoMapping

\* the key paths at which an existing and an incoming tree both hold a
\* mapping: the places merge_sources is called on, by key
RECURSIVE BothMappings(_, _)
BothMappings(existing, incoming) ==
    IF IsDict(existing) /\ IsDict(incoming)
    THEN {<<>>} \cup
         UNION {{<<KeyStep(k)>> \o q :
                    q \in BothMappings(GetKey(existing, k), GetKey(incoming, k))} :
                k \in Keys(existing) \cap Keys(incoming)}
    ELSE {}

\* the keys the existing mapping at p holds and the incoming one does not
OnlyExisting(p) == Keys(At(merged_data, p)) \ Keys(At(NewData, p))

\* C23: when existing and incoming are both mappings, merge_sources touches
\* only the keys of the incoming mapping: the subtree under every key that
\* only the existing mapping holds is the same before and after the merge.
C23_OtherKeysAreUntouched ==
    [][MergeCalled => \A p \in BothMappings(merged_data, NewData) :
        \A k \in OnlyExisting(p) :
            /\ HasPath(merged_data', Append(p, KeyStep(k)))
            /\ At(merged_data', Append(p, KeyStep(k))) = At(merged_data, Append(p, KeyStep(k)))
    ]_vars

\* C23 witness: a merge changed 'email' next to a key 'name' that only the
\* existing mapping holds
C23_Witness ==
    /\ pc = "merge" /\ Len(loads) = 2
    /\ Keys(loads[1].doc) = {"name", "email"}
    /\ Keys(loads[2].doc) = {"email"}
    /\ At(merged_data, EmailPath) # At(baseline, EmailPath)
    /\ GetKey(merged_data, "name") = GetKey(baseline, "name")

\* the same one level down: a merge changed 'email.x' next to 'email.value'
C23_NestedWitness ==
    /\ pc = "merge" /\ Len(loads) = 2
    /\ HasKey(loads[1].doc, "email") /\ HasKey(loads[2].doc, "email")
    /\ IsDict(Email(1)) /\ IsDict(Email(2))
    /\ Keys(Email(1)) = {"value", "x"} /\ Keys(Email(2)) = {"x"}
    /\ At(merged_data, EmailPath) # At(baseline, EmailPath)
    /\ GetKey(At(merged_data, EmailPath), "value")
          = GetKey(At(baseline, EmailPath), "value")

\* the similarity score of an incoming item against the j-th existing item
Score(new_item, existing, j, key) ==
    FuzzRatio(GetComparisonString(new_item, key), GetComparisonString(existing[j], key))

\* the j-th existing item has the highest score of all against the incoming
\* item, and no item before it has that score
IsFirstBest(new_item, existing, j, key) ==
    /\ \A x \in 1..Len(existing) :
          Score(new_item, existing, x, key) <= Score(new_item, existing, j, key)
    /\ \A x \in 1..(j - 1) :
          Score(new_item, existing, x, key) < Score(new_item, existing, j, key)

\* the merge left the comparison strings of the existing items as they were
KeepsComparisonStrings(before, after, key) ==
    \A j \in 1..Len(before) :
        GetComparisonString(after[j], key) = GetComparisonString(before[j], key)

\* C24: in a list merge the existing item an incoming item is merged into
\* has the highest score of all existing items against that incoming item,
\* and among several with that score it is the one with the lowest index:
\* an existing item the merge changed is such an item for some incoming item.
C24_MergedIntoFirstBest ==
    [][MergeReturned =>
        \A i \in 1..Len(NewData.v) :
            ListMeetsList(i) =>
                LET k == NewData.v[i][1]
                    before == GetKey(merged_data, k).v
                    after == GetKey(merged_data', k).v
                    new_value == NewData.v[i][2].v
                IN  KeepsComparisonStrings(before, after, k) =>
                        \A j \in 1..Len(before) :
                            after[j] # before[j] =>
                                \E n \in 1..Len(new_value) :
                                    IsFirstBest(new_value[n], before, j, k)
    ]_vars

\* C24 witness: 'ab ce' scores 60 against the first existing item and 80
\* against the second, and the second one took the merge
C24_Witness ==
    /\ pc = "merge" /\ Len(loads) = 2
    /\ loads[1].doc = WorkExperience(<<JobAt(<<"a", "b">>, <<"x", "y">>),
                                       JobAt(<<"a", "b">>, <<"c", "d">>)>>)
    /\ loads[2].doc = WorkExperience(<<JobAt(<<"a", "b">>, <<"c", "e">>)>>)
    /\ Len(GetKey(merged_data, "work_experience").v) = 2
    /\ GetKey(merged_data, "work_experience").v[1] = GetKey(baseline, "work_experience").v[1]
    /\ GetKey(merged_data, "work_experience").v[2] # GetKey(baseline, "work_experience").v[2]

\* two existing items tie at 100 and the first one took the merge
C24_TieWitness ==
    /\ pc = "merge" /\ Len(loads) = 2
    /\ loads[1].doc = WorkExperience(<<Job("a", "b", 1), Job("a", "b", 2)>>)
    /\ loads[2].doc = loads[1].doc
    /\ Len(GetKey(merged_data, "work_experience").v) = 2
    /\ GetKey(merged_data, "work_experience").v[1] # GetKey(baseline, "work_experience").v[1]
    /\ GetKey(merged_data, "work_experience").v[2] = GetKey(baseline, "work_experience").v[2]

\* the incoming items that select the j-th existing item, reach the
\* threshold and hold under field a scalar that differs from the value of
\* the Field the existing item holds there
Disagreeing(new_value, existing, j, key, field) ==
    {n \in 1..Len(new_value) :
        /\ IsDict(new_value[n])
        /\ IsFirstBest(new_value[n], existing, j, key)
        /\ Score(new_value[n], existing, j, key) >= config.threshold
        /\ Score(new_value[n], existing, j, key) > 0
        /\ HasKey(new_value[n], field)
        /\ IsScalar(GetKey(new_value[n], field))
        /\ ~PyEq(GetKey(GetKey(existing[j], field), "value"), GetKey(new_value[n], field))}

\* the Field under 'start' of the j-th item of a list
StartOf(list, j) == GetKey(list[j], "start")
HasStart(list, j) ==
    IsDict(list[j]) /\ HasKey(list[j], "start") /\ FieldLike(GetKey(list[j], "start"))

\* C25: list matching has no exclusivity: every incoming item that selects
\* an existing item is merged into it, whatever the other incoming items
\* selected, so the Field 'start' of an existing item that keeps its value
\* receives one conflict entry for each incoming item that selected the item
\* and disagrees on 'start', two of them included.
C25_EveryMatchIsMerged ==
    [][MergeReturned =>
        \A i \in 1..Len(NewData.v) :
            ListMeetsList(i) =>
                LET k == NewData.v[i][1]
                    before == GetKey(merged_data, k).v
                    after == GetKey(merged_data', k).v
                    new_value == NewData.v[i][2].v
                IN  \A j \in 1..Len(before) :
                        (/\ HasStart(before, j)
                         /\ GetKey(StartOf(after, j), "value") = GetKey(StartOf(before, j), "value")
                         /\ GetKey(StartOf(after, j), "source") = GetKey(StartOf(before, j), "source"))
                        => Len(Conflicts(StartOf(after, j))) =
                               Len(Conflicts(StartOf(before, j)))
                               + Cardinality(Disagreeing(new_value, before, j, k, "start"))
    ]_vars

\* C25 witness: both items of the second source were merged into the one
\* existing item, whose Field 'start' holds two conflict entries of that source
C25_Witness ==
    /\ pc = "merge" /\ Len(loads) = 2
    /\ loads[1].doc = WorkExperience(<<Job("a", "b", 3)>>)
    /\ loads[2].doc = WorkExperience(<<Job("a", "b", 1), Job("a", "b", 2)>>)
    /\ Len(GetKey(merged_data, "work_experience").v) = 1
    /\ LET start == StartOf(GetKey(merged_data, "work_experience").v, 1)
       IN  /\ Len(Conflicts(start)) = 2
           /\ GetKey(Conflicts(start)[1], "source") = PyStr(<<loads[2].source>>)
           /\ GetKey(Conflicts(start)[2], "source") = PyStr(<<loads[2].source>>)
           /\ GetKey(Conflicts(start)[1], "value") = PyInt(1)
           /\ GetKey(Conflicts(start)[2], "value") = PyInt(2)

\* the conflict entries of a Field that record a confidence
Recorded(field) ==
    {n \in 1..Len(Conflicts(field)) :
        /\ IsDict(Conflicts(field)[n])
        /\ HasKey(Conflicts(field)[n], "confidence")
        /\ IsNumber(GetKey(Conflicts(field)[n], "confidence"))}

\* no conflict entry of the Field records a higher confidence than the Field
OutranksConflicts(field) ==
    \A n \in Recorded(field) :
        NumValue(GetKey(Conflicts(field)[n], "confidence"))
            <= NumValue(GetKey(field, "confidence"))

\* no document of the run holds a mapping with a key 'conflicts'
NoConflictsDoc == \A n \in 1..Len(loads) : loads[n].doc # ConflictsDoc

\* C26: under highest_confidence_wins, after the baseline transformation and
\* after any sequence of merges, the confidence of each Field is greater than
\* or equal to the confidence of every entry of its conflicts list.
C26_WinnerOutranksConflicts ==
    (Hcw /\ pc \in {"merge", "done"}) =>
        \A p \in FieldPaths(merged_data) : OutranksConflicts(At(merged_data, p))

\* what does hold: the same for the runs in which no mapping with a key
\* 'conflicts' meets a Field
C26_WinnerOutranksConflictsOfScalars ==
    (Hcw /\ pc \in {"merge", "done"} /\ NoConflictsDoc) =>
        \A p \in FieldPaths(merged_data) : OutranksConflicts(At(merged_data, p))

\* a Field with conflict entries below and at its own confidence
C26_Recorded ==
    /\ Hcw /\ pc = "done" /\ NoConflictsDoc
    /\ \E p \in FieldPaths(merged_data) :
          /\ Cardinality(Recorded(At(merged_data, p))) = 2
          /\ \E n \in Recorded(At(merged_data, p)) :
                NumValue(GetKey(Conflicts(At(merged_data, p))[n], "confidence"))
                    = NumValue(GetKey(At(merged_data, p), "confidence"))
          /\ \E n \in Recorded(At(merged_data, p)) :
                NumValue(GetKey(Conflicts(At(merged_data, p))[n], "confidence"))
                    < NumValue(GetKey(At(merged_data, p), "confidence"))

\* every source that loaded holds a scalar under 'email', two or more did,
\* and their confidences differ pairwise
ScalarsOfDistinctConfidence ==
    /\ Len(loads) >= 2
    /\ \A n \in 1..Len(loads) : HasEmail(n)
    /\ \A n, o \in 1..Len(loads) : n # o => ConfidenceOf(n) # ConfidenceOf(o)

\* the load of the source with the highest confidence
MostConfident ==
    CHOOSE n \in 1..Len(loads) : \A o \in 1..Len(loads) : ConfidenceOf(o) <= ConfidenceOf(n)

\* C27: under highest_confidence_wins, when several sources of pairwise
\* distinct confidences each provide a scalar at the same path, values
\* possibly equal between some of them, the value of the Field after all
\* sources are merged is the one the source of the highest confidence provided.
C27_MostConfidentWinsFinally ==
    (Hcw /\ pc = "done" /\ ScalarsOfDistinctConfidence) =>
        PyEq(GetKey(At(merged_data, EmailPath), "value"), Email(MostConfident))

\* what does hold: the same when the values differ pairwise
C27_MostConfidentWinsAmongDifferent ==
    ( /\ Hcw /\ pc = "done" /\ ScalarsOfDistinctConfidence
      /\ \A n, o \in 1..Len(loads) : n # o => ~PyEq(Email(n), Email(o)) ) =>
        PyEq(GetKey(At(merged_data, EmailPath), "value"), Email(MostConfident))

\* the (value, source, confidence) a winner or a conflict entry records
RecordOf(d) ==
    IF IsDict(d) /\ HasKey(d, "value") /\ HasKey(d, "source") /\ HasKey(d, "confidence")
    THEN <<GetKey(d, "value"), GetKey(d, "source"), GetKey(d, "confidence")>>
    ELSE <<d>>

\* the records of a Field: its winner, then its conflict entries
Records(field) ==
    <<RecordOf(field)>> \o [n \in 1..Len(Conflicts(field)) |-> RecordOf(Conflicts(field)[n])]

\* how often a sequence holds x
Count(seq, x) == Cardinality({n \in 1..Len(seq) : seq[n] = x})

\* the record of the scalar merge_sources resolves at path p
Incoming(p) == <<At(NewData, p), PyStr(<<SourceName>>), PyFloat(NewConfidence)>>

\* C28: no disagreeing value is lost: each time merge_sources resolves a
\* scalar that differs from the value of a Field, exactly one entry is added
\* to its conflicts, and the records (value, source, confidence) of the
\* winner and the conflict entries after the step are those before the step
\* plus the incoming one, under both policies.
C28_NoValueIsLost ==
    [][MergeReturned => \A p \in ScalarPaths(NewData) :
        (Meets(p) /\ Differs(p)) =>
            LET old == Records(At(merged_data, p))
                new == Records(At(merged_data', p))
                incoming == Incoming(p)
            IN  /\ Len(new) = Len(old) + 1
                /\ \A n \in 1..Len(new) :
                      Count(new, new[n]) =
                          Count(old, new[n]) + (IF new[n] = incoming THEN 1 ELSE 0)
                /\ Count(new, incoming) >= 1
    ]_vars

\* C28 witness: highest_confidence_wins, the third source takes the Field
\* over; the old winner joins the second source's value in the conflicts
C28_Witness ==
    /\ Hcw /\ pc = "merge" /\ Len(loads) = 3
    /\ HasEmail(1) /\ HasEmail(2) /\ HasEmail(3)
    /\ ~PyEq(Email(1), Email(2)) /\ ~PyEq(Email(2), Email(3)) /\ ~PyEq(Email(1), Email(3))
    /\ ConfidenceOf(2) <= ConfidenceOf(1) /\ ConfidenceOf(1) < ConfidenceOf(3)
    /\ Records(At(merged_data, EmailPath)) =
          << <<Email(3), PyStr(<<loads[3].source>>), PyFloat(ConfidenceOf(3))>>,
             <<Email(2), PyStr(<<loads[2].source>>), PyFloat(ConfidenceOf(2))>>,
             <<Email(1), PyStr(<<loads[1].source>>), PyFloat(ConfidenceOf(1))>> >>

\* the same under primary_wins: the two later values are recorded
C28_PrimaryWinsWitness ==
    /\ ~Hcw /\ pc = "merge" /\ Len(loads) = 3
    /\ HasEmail(1) /\ HasEmail(2) /\ HasEmail(3)
    /\ ~PyEq(Email(1), Email(2)) /\ ~PyEq(Email(1), Email(3))
    /\ Records(At(merged_data, EmailPath)) =
          << <<Email(1), PyStr(<<loads[1].source>>), PyFloat(ConfidenceOf(1))>>,
             <<Email(2), PyStr(<<loads[2].source>>), PyFloat(ConfidenceOf(2))>>,
             <<Email(3), PyStr(<<loads[3].source>>), PyFloat(ConfidenceOf(3))>> >>

\* the places of the list after the merge that hold an appended element
\* built from the value item
AppendedFrom(before, after, item) ==
    {j \in (Len(before) + 1)..Len(after) : RawOf(after[j]) = item}

\* C29: within one list merge the incoming items are compared only against
\* the elements the list held before the merge began, the unmatched ones are
\* appended after every incoming item has been scored: each incoming item
\* that scores below the threshold against all of those elements is
\* appended, as often as it occurs among the incoming items, identical
\* items included.
C29_UnmatchedAreAllAppended ==
    [][MergeReturned =>
        \A i \in 1..Len(NewData.v) :
            ListMeetsList(i) =>
                LET k == NewData.v[i][1]
                    before == GetKey(merged_data, k).v
                    after == GetKey(merged_data', k).v
                    new_value == NewData.v[i][2].v
                    below == BelowThreshold(new_value, before, k)
                IN  \A n \in below :
                        Cardinality(AppendedFrom(before, after, new_value[n]))
                            >= Cardinality({o \in below : new_value[o] = new_value[n]})
    ]_vars

\* C29 witness: two identical entries that match no existing entry were both
\* appended, although the second scores 100 against the first
C29_Witness ==
    /\ pc = "merge" /\ Len(loads) = 2
    /\ loads[1].doc = WorkExperience(<<JobAt(<<"a", "b">>, <<"c", "d">>)>>)
    /\ loads[2].doc = WorkExperience(<<JobAt(<<"x", "y">>, <<"z">>), JobAt(<<"x", "y">>, <<"z">>)>>)
    /\ Len(GetKey(merged_data, "work_experience").v) = 3
    /\ GetKey(merged_data, "work_experience").v[2] = GetKey(merged_data, "work_experience").v[3]
    /\ RawOf(GetKey(merged_data, "work_experience").v[3]) = JobAt(<<"x", "y">>, <<"z">>)

\* the incoming item reaches the threshold against an existing element
Reaches(new_item, existing, key) ==
    \E j \in 1..Len(existing) :
        /\ IsFirstBest(new_item, existing, j, key)
        /\ Score(new_item, existing, j, key) >= config.threshold
        /\ Score(new_item, existing, j, key) > 0
        /\ Truthy(existing[j])

====
